---- MODULE Spec2Model ----
(***************************************************************************)
(* Model of the aparto listing watcher: the poll, refresh and settings     *)
(* cycles (src/src/app/api/poll/route.ts, src/src/app/api/refresh/route.ts,*)
(* src/unnamed/part_006), the key-value store operations they use          *)
(* (src/src/lib/redis.ts) and the notification dispatcher                  *)
(* (src/src/lib/push.ts).                                                  *)
(*                                                                         *)
(* Every `await` of a handler is one step of the process that runs it, so  *)
(* two handlers interleave exactly where the code yields.  The Upstash     *)
(* pipeline of syncKnownPropertyIds is a batch of two commands (DEL, SADD) *)
(* executed in order but not as a transaction (the code calls              *)
(* redis.pipeline(), not redis.multi()), so the two commands are two steps *)
(* between which commands of other clients may run.                        *)
(***************************************************************************)
EXTENDS Integers, Sequences, FiniteSets, TLC

\* ---------------------------------------------------------------- bounds
MaxId == 2          \* listing identifiers are 1..MaxId
MaxCycles == 3      \* handler invocations per behaviour (the clock's range)
MaxEndpoints == 1   \* push endpoints are 1..MaxEndpoints
MaxOverlap == 2     \* handler invocations per behaviour when they may overlap
MaxPushEndpoints == 3  \* push endpoints of the dispatcher's own checks
MaxKeys == 2        \* key pairs a browser may register an endpoint with
MaxNew == 4         \* new listings of one poll in the dispatcher's checks
MaxHistoryCycles == 4  \* polls per behaviour in the history's checks
MaxWatched == 2     \* polls and refreshes of a watcher in use

\* ------------------------------------------------------ program constants
MAX_NOTIFICATIONS == 50
HASH_TAIL == 64         \* endpoint.slice(-64)
SUMMARY_LIMIT == 3      \* properties.slice(0, 3)
MAX_RETRIES == 3
BACKOFF_BASE_MS == 3000 \* 3000 * Math.pow(2, attempt - 1)

Ids == 1..MaxId
Endpoints == 1..MaxEndpoints
PushEndpoints == 1..MaxPushEndpoints
KeyPairs == 1..MaxKeys
Procs == {"a", "b"}
Ops == {"poll", "refresh", "settings"}
Wards == {1, 2}
NoTimestamp == 0

\* DEFAULT_FILTERS, reduced to its ward list.
DEFAULT_FILTERS == {1}

\* The "no value" of the filter key: redis.get returns null.
NoFilters == {}

\* ---------------------------------------------------------------- helpers
Range(s) == {s[i] : i \in 1..Len(s)}

Min(S) == CHOOSE x \in S : \A y \in S : x <= y

Max(S) == CHOOSE x \in S : \A y \in S : x >= y

RECURSIVE SortedSeq(_)
SortedSeq(S) == IF S = {} THEN <<>> ELSE <<Min(S)>> \o SortedSeq(S \ {Min(S)})

\* The ward a listing lies in (the upstream site's data).
WardOf(i) == IF i % 2 = 1 THEN 1 ELSE 2

\* The upstream search: the listings on the site that match the wards of the
\* query string built by buildSearchUrl.
Search(wards, onSite) == SortedSeq({i \in onSite : WardOf(i) \in wards})

\* properties.map((p) => p.id)
CurrentIds(properties) == Range(properties)

Reverse(s) == [i \in 1..Len(s) |-> s[Len(s) + 1 - i]]

\* ------------------------------------------------- key-value store commands
\* Mutant of Del: the key is not deleted, so SADD adds to the old set.
DelKeeps(k) == k

\* pipeline.del(KNOWN_IDS_KEY)
Del(k) == {}

\* pipeline.sadd(KNOWN_IDS_KEY, ...currentIds)
Sadd(k, ids) == k \cup ids

\* redis.smembers(KNOWN_IDS_KEY), as a Set<number>
GetKnownPropertyIds(k) == k

\* redis.get(FILTERS_KEY) ?? DEFAULT_FILTERS
GetFilterSettings(f) == IF f = NoFilters THEN DEFAULT_FILTERS ELSE f

\* Mutant of Ltrim: the trim keeps the tail of the list, its oldest records.
LtrimOldest(h) ==
    IF Len(h) > MAX_NOTIFICATIONS
    THEN SubSeq(h, Len(h) - MAX_NOTIFICATIONS + 1, Len(h))
    ELSE h

\* pipeline.ltrim(NOTIFICATIONS_KEY, 0, MAX_NOTIFICATIONS - 1)
Ltrim(h) == IF Len(h) > MAX_NOTIFICATIONS THEN SubSeq(h, 1, MAX_NOTIFICATIONS) ELSE h

\* Mutant of AddNotifications: the batch is pushed as one block, its first
\* record on top.
AddNotificationsAsBlock(h, notifications) ==
    IF Len(notifications) = 0 THEN h
    ELSE Ltrim(notifications \o h)

\* addNotifications: LPUSH each record in order (the last one ends first), then
\* LTRIM; nothing at all for an empty list.
AddNotifications(h, notifications) ==
    IF Len(notifications) = 0 THEN h
    ELSE Ltrim(Reverse(notifications) \o h)

\* ------------------------------------------------------- the push registry
\* The characters [a-zA-Z0-9] that occur in the endpoints below.
Alnum == {"a", "b", "c", "x", "y"}

\* The URL of push endpoint e, one character per element.  Browsers choose
\* these: 1 and 3 differ only before their last HASH_TAIL characters, 2 and 4
\* only in a character outside [a-zA-Z0-9].
EndpointUrl(e) ==
    CASE e = 1 -> <<"a">> \o [i \in 1..HASH_TAIL |-> "x"]
      [] e = 2 -> <<"a">> \o [i \in 1..HASH_TAIL |-> IF i = HASH_TAIL THEN "-" ELSE "x"]
      [] e = 3 -> <<"b">> \o [i \in 1..HASH_TAIL |-> "x"]
      [] e = 4 -> <<"a">> \o [i \in 1..HASH_TAIL |-> IF i = HASH_TAIL THEN "_" ELSE "x"]
      [] OTHER -> <<"c">> \o [i \in 1..HASH_TAIL |-> IF i <= e THEN "y" ELSE "x"]

\* endpoint.slice(-64).replace(/[^a-zA-Z0-9]/g, '_')
HashEndpoint(endpoint) ==
    LET n == Len(endpoint)
        tail == IF n > HASH_TAIL THEN SubSeq(endpoint, n - HASH_TAIL + 1, n)
                ELSE endpoint
    IN [i \in 1..Len(tail) |-> IF tail[i] \in Alnum THEN tail[i] ELSE "_"]

\* The field of the hash push:subscriptions that holds each endpoint.
FieldOf ==
    [e \in 1..Max({MaxEndpoints, MaxPushEndpoints}) |->
        HashEndpoint(EndpointUrl(e))]

Field(e) == FieldOf[e]

\* The registry is the set of the values of the hash push:subscriptions; the
\* field of a value is Field of its endpoint, so no two values share a field.
\* addSubscription: redis.hset(SUBSCRIPTIONS_KEY, {[key]: sub})
AddSubscription(registry, sub) ==
    {s \in registry : Field(s.endpoint) # Field(sub.endpoint)} \cup {sub}

\* removeSubscription: redis.hdel(SUBSCRIPTIONS_KEY, key)
RemoveSubscription(registry, e) ==
    {s \in registry : Field(s.endpoint) # Field(e)}

\* getAllSubscriptions: Object.values(redis.hgetall(SUBSCRIPTIONS_KEY))
GetAllSubscriptions(registry) == registry

Registered(registry) == {s.endpoint : s \in registry}

\* ------------------------------------------------------------- poll's logic
\* Mutant of DiffNew: the known identifiers are ignored.
DiffNewAll(properties, knownIds) == properties

\* properties.filter((p) => !knownIds.has(p.id))
DiffNew(properties, knownIds) ==
    SelectSeq(properties, LAMBDA i : i \notin knownIds)

\* Mutant of ShouldNotify: the first-poll check is dropped.
ShouldNotifyAlways(newProperties, knownIds) == Len(newProperties) > 0

\* newProperties.length > 0 && knownIds.size > 0
ShouldNotify(newProperties, knownIds) ==
    Len(newProperties) > 0 /\ Cardinality(knownIds) > 0

\* properties.map(...) of notifyNewProperties: one record per new listing.
NotificationRecords(properties) ==
    [i \in 1..Len(properties) |-> [propertyId |-> properties[i]]]

\* Mutant of ValidFilters: no validation.
ValidFiltersAny(w) == TRUE

\* !filters.wards || filters.wards.length === 0  rejects the request
ValidFilters(w) == w # {}

\* ---------------------------------------------------------- the dispatcher
\* formatPropertySummary(prop): the detailed one-line summary of a listing.
FormatPropertySummary(i) == [kind |-> "detailed", propertyId |-> i]

\* `${p.name} - ¥${p.rent_amount.toLocaleString()}`
ShortSummary(i) == [kind |-> "short", propertyId |-> i]

\* Mutant of FirstListings: every listing is summarised.
FirstListingsAll(properties) == properties

\* properties.slice(0, 3)
FirstListings(properties) ==
    SubSeq(properties, 1, Min({Len(properties), SUMMARY_LIMIT}))

\* The payload: title, body (its lines), url (the listing it opens, 0 for the
\* home page) and propertyCount.
BuildPayload(properties) ==
    LET n == Len(properties)
    IN [title |-> IF n = 1 THEN [kind |-> "name", of |-> properties[1]]
                  ELSE [kind |-> "count", of |-> n],
        body |-> IF n = 1 THEN <<FormatPropertySummary(properties[1])>>
                 ELSE [i \in 1..Len(FirstListings(properties)) |->
                          ShortSummary(FirstListings(properties)[i])],
        url |-> IF n = 1 THEN properties[1] ELSE 0,
        propertyCount |-> n]

NoPayload == [title |-> [kind |-> "none", of |-> 0], body |-> <<>>, url |-> 0,
              propertyCount |-> 0]

\* What the transport and the store make of one delivery: delivered; gone
\* (404/410) and the registration removed; gone and the removal throws; any
\* other failure.
DeliveryOutcomes == {"ok", "gone", "goneRemoveFails", "error"}

\* Mutant of AfterDelivery: every failed delivery removes the registration.
AfterDeliveryRemovesFailed(registry, e, outcome) ==
    IF outcome \in {"gone", "error"} THEN RemoveSubscription(registry, e)
    ELSE registry

\* sendPushNotification's catch block: removeSubscription for 410 and 404,
\* console.error otherwise.
AfterDelivery(registry, e, outcome) ==
    IF outcome = "gone" THEN RemoveSubscription(registry, e) ELSE registry

\* Mutant of StillPending: the first delivery that fails ends the dispatch.
StillPendingUntilFailure(pending, e, outcome) ==
    IF outcome = "ok" THEN pending \ {e} ELSE {}

\* Promise.allSettled(sendPromises): each delivery settles on its own.
StillPending(pending, e, outcome) == pending \ {e}

\* ------------------------------------------------------- the amenity query
\* The mirrors, in the order fetchAmenityCounts tries them.
OVERPASS_SERVERS == <<"overpass-api.de", "overpass.private.coffee">>

\* What a request that is answered ends in: a 2xx response whose body parses,
\* HTTP 429, another non-2xx status, or an exception (the network fails, or
\* the body is not JSON).
ResponseOutcomes == {"ok", "429", "status", "network"}

\* Mutant of Backoff: the delay does not double.
BackoffFixed(attempt) == BACKOFF_BASE_MS

\* 3000 * Math.pow(2, attempt - 1), slept before attempt number `attempt`
\* (counted from 0) when attempt > 0.
Backoff(attempt) == BACKOFF_BASE_MS * 2 ^ (attempt - 1)

\* `break`: leave the attempt loop of this mirror; the mirror loop goes on to
\* the next one, and after the last one the function throws.
NextServer(server) ==
    IF server < Len(OVERPASS_SERVERS)
    THEN [pc |-> "request", server |-> server + 1, attempt |-> 0]
    ELSE [pc |-> "failed", server |-> server, attempt |-> 0]

\* The branches of the attempt loop's body on a response: return the counts;
\* on 429 `continue` unless this was the last attempt; `break` on any other
\* status and in the catch block.
AfterResponse(server, attempt, outcome) ==
    CASE outcome = "ok" ->
            [pc |-> "returned", server |-> server, attempt |-> attempt]
      [] outcome = "429" /\ attempt < MAX_RETRIES - 1 ->
            [pc |-> "backoff", server |-> server, attempt |-> attempt + 1]
      [] OTHER -> NextServer(server)

\* Mutant of PollNext: the known identifiers are replaced before the dispatch.
PollNextSyncFirst(step) ==
    CASE step = "start" -> "fetch"
      [] step = "fetch" -> "readKnown"
      [] step = "readKnown" -> "syncDel"
      [] step = "sync" -> "notify"
      [] step = "notify" -> "setListings"
      [] step = "setListings" -> "setTs"
      [] step = "setTs" -> "done"
      [] OTHER -> "failed"

\* ------------------------------------------------------------ control flow
\* The order of the awaited statements of each handler: the step that follows
\* `step` when it completes without throwing.
PollNext(step) ==
    CASE step = "start" -> "fetch"
      [] step = "fetch" -> "readKnown"
      [] step = "readKnown" -> "notify"
      [] step = "notify" -> "syncDel"
      [] step = "sync" -> "setListings"
      [] step = "setListings" -> "setTs"
      [] step = "setTs" -> "done"
      [] OTHER -> "failed"

\* Mutant of RefreshNext: refresh diffs and dispatches as poll does.
RefreshNextLikePoll(step) ==
    CASE step = "start" -> "fetch"
      [] step = "fetch" -> "readKnown"
      [] step = "readKnown" -> "notify"
      [] step = "notify" -> "syncDel"
      [] step = "sync" -> "setListings"
      [] step = "setListings" -> "setTs"
      [] step = "setTs" -> "getHistory"
      [] step = "getHistory" -> "done"
      [] OTHER -> "failed"

RefreshNext(step) ==
    CASE step = "start" -> "fetch"
      [] step = "fetch" -> "syncDel"
      [] step = "sync" -> "setListings"
      [] step = "setListings" -> "setTs"
      [] step = "setTs" -> "getHistory"
      [] step = "getHistory" -> "done"
      [] OTHER -> "failed"

\* Mutant of SettingsNext: the known identifiers are neither cleared nor
\* reseeded.
SettingsNextNoReseed(step) ==
    CASE step = "start" -> "setFilters"
      [] step = "setFilters" -> "fetch"
      [] step = "fetch" -> "setListings"
      [] step = "setListings" -> "setTs"
      [] step = "setTs" -> "done"
      [] OTHER -> "failed"

SettingsNext(step) ==
    CASE step = "start" -> "setFilters"
      [] step = "setFilters" -> "clearKnown"
      [] step = "clearKnown" -> "fetch"
      [] step = "fetch" -> "syncDel"
      [] step = "sync" -> "setListings"
      [] step = "setListings" -> "setTs"
      [] step = "setTs" -> "done"
      [] OTHER -> "failed"

After(o, step) ==
    CASE o = "poll" -> PollNext(step)
      [] o = "refresh" -> RefreshNext(step)
      [] o = "settings" -> SettingsNext(step)

\* ------------------------------------------------------------------- state
VARIABLES
    known,      \* the set at properties:known
    latest,     \* the listing snapshot at properties:latest
    lastPoll,   \* poll:last_timestamp (NoTimestamp: never set)
    filters,    \* settings:filters (NoFilters: never set)
    subs,       \* the push registry, push:subscriptions
    history,    \* notifications:history, newest first
    vapid,      \* whether the VAPID keys are configured
    clock,      \* the wall clock, one tick per handler invocation
    loc,        \* each handler's position and local variables
    gh,         \* per handler: the store at its start, and what it has done
    seeded,     \* a cycle has completed since cold start
    last,       \* the last handler that returned
    appended,   \* every record ever pushed on the history, oldest first
    amen,       \* the amenity query in flight (fetchAmenityCounts)
    calc,       \* the pure function applied last: its input and its result
    enr         \* the enrichment caches and the batch in progress

vars == <<known, latest, lastPoll, filters, subs, history, vapid, clock,
          loc, gh, seeded, last, appended, amen, calc, enr>>

IdleLoc == [pc |-> "idle", op |-> "poll", ts |-> NoTimestamp, wards |-> {},
            properties |-> <<>>, knownIds |-> {}, newProperties |-> <<>>,
            subscriptions |-> {}, pending |-> {}, notifications |-> <<>>,
            payload |-> NoPayload, returned |-> <<>>]

StartOfCycle == [known |-> known, latest |-> latest, lastPoll |-> lastPoll,
                 filters |-> filters, history |-> history, seeded |-> seeded]

IdleGh == [start |-> [known |-> {}, latest |-> <<>>, lastPoll |-> NoTimestamp,
                      filters |-> NoFilters, history |-> <<>>,
                      seeded |-> FALSE],
           onlyWriter |-> FALSE, called |-> FALSE, arg |-> <<>>, fetched |-> FALSE,
           sent |-> {}, raisedAt |-> "none",
           delivered |-> [e \in PushEndpoints |-> <<>>],
           outcome |-> [e \in PushEndpoints |-> "none"]]

\* Besides the handler that returned last: the snapshot of the last poll that
\* completed, and what has returned since then ("nothing", "refresh": only
\* refreshes that completed, "raised": only polls whose dispatch threw,
\* "other": anything else, or no poll has completed yet).
NoLast == [op |-> "none", ok |-> FALSE, fresh |-> FALSE,
           polled |-> {}, since |-> "other"]

IdleAmen == [pc |-> "idle", server |-> 1, attempt |-> 0, slept |-> 0,
             responds |-> TRUE, log |-> <<>>]

\* ------------------------------------------------------ livability rubric
MaxCount == 60      \* walking minutes and amenity counts are 0..MaxCount

Inputs == 0..MaxCount

scoreStationStrict(walkingMinutes) ==
    IF walkingMinutes < 3 THEN 10
    ELSE IF walkingMinutes <= 5 THEN 8
    ELSE IF walkingMinutes <= 8 THEN 6
    ELSE IF walkingMinutes <= 12 THEN 4
    ELSE IF walkingMinutes <= 15 THEN 2
    ELSE 1

scoreStation(walkingMinutes) ==
    IF walkingMinutes <= 3 THEN 10
    ELSE IF walkingMinutes <= 5 THEN 8
    ELSE IF walkingMinutes <= 8 THEN 6
    ELSE IF walkingMinutes <= 12 THEN 4
    ELSE IF walkingMinutes <= 15 THEN 2
    ELSE 1

scoreSupermarkets(count) ==
    IF count = 0 THEN 0
    ELSE IF count = 1 THEN 4
    ELSE IF count = 2 THEN 6
    ELSE IF count = 3 THEN 8
    ELSE 10

scoreRestaurants(count) ==
    IF count = 0 THEN 0
    ELSE IF count <= 5 THEN 3
    ELSE IF count <= 15 THEN 5
    ELSE IF count <= 30 THEN 7
    ELSE IF count <= 50 THEN 8
    ELSE 10

scoreConvenience(count) ==
    IF count = 0 THEN 0
    ELSE IF count = 1 THEN 4
    ELSE IF count = 2 THEN 7
    ELSE 10

scoreParks(count) ==
    IF count = 0 THEN 0
    ELSE IF count = 1 THEN 5
    ELSE IF count = 2 THEN 7
    ELSE 10

Scales == {"station", "supermarkets", "restaurants", "convenience", "parks"}

\* The scale computeScore applies to one of its five inputs.
SubScore(scale, input) ==
    CASE scale = "station" -> scoreStation(input)
      [] scale = "supermarkets" -> scoreSupermarkets(input)
      [] scale = "restaurants" -> scoreRestaurants(input)
      [] scale = "convenience" -> scoreConvenience(input)
      [] scale = "parks" -> scoreParks(input)

\* ------------------------------------------- double-precision arithmetic
\* A number is held exactly as <<a, b, c, d>>, standing for
\* a + b/2^20 + c/2^40 + d/2^60 with b, c, d below 2^20.  Every double between
\* 2^-8 and 2^11 is such a number, and so are the exact sum of two of them and
\* the exact product of one of them with an integer up to ten; RoundToDouble
\* then rounds the exact result to the 53 significant bits of a double, ties
\* to even, as the arithmetic of the language does after every operation.
Limb == 2 ^ 20

Carry(t) ==
    LET c0 == t[3] + t[4] \div Limb
        b0 == t[2] + c0 \div Limb
    IN  <<t[1] + b0 \div Limb, b0 % Limb, c0 % Limb, t[4] % Limb>>

FxAdd(x, y) == Carry(<<x[1] + y[1], x[2] + y[2], x[3] + y[3], x[4] + y[4]>>)

FxTimes(x, k) == Carry(<<x[1] * k, x[2] * k, x[3] * k, x[4] * k>>)

\* The binary exponent of x > 0: 2^Exponent(x) <= x < 2^(Exponent(x) + 1).
Exponent(x) ==
    IF x[1] > 0
    THEN CHOOSE e \in 0..10 : 2 ^ e <= x[1] /\ x[1] < 2 ^ (e + 1)
    ELSE IF x[2] > 0
    THEN (CHOOSE e \in 0..19 : 2 ^ e <= x[2] /\ x[2] < 2 ^ (e + 1)) - 20
    ELSE 0 - 20

\* x rounded to a double; sticky says that the exact value lies above x by
\* less than 2^-60.  A double with exponent E keeps 52 - E fractional bits, so
\* the 8 + E lowest of the sixty are rounded away.
RoundToDouble(x, sticky) ==
    LET k == Max({0, 8 + Exponent(x)})
        unit == 2 ^ k
        q == x[4] \div unit
        r == x[4] % unit
        up == /\ k > 0
              /\ \/ 2 * r > unit
                 \/ 2 * r = unit /\ (sticky \/ q % 2 = 1)
    IN  Carry(<<x[1], x[2], x[3], (q + (IF up THEN 1 ELSE 0)) * unit>>)

\* The double a decimal literal num/den denotes (0.15 is Literal(15, 100)).
Literal(num, den) ==
    LET r0 == num % den
        r1 == (r0 * Limb) % den
        r2 == (r1 * Limb) % den
        r3 == (r2 * Limb) % den
    IN  RoundToDouble(<<num \div den, (r0 * Limb) \div den,
                        (r1 * Limb) \div den, (r2 * Limb) \div den>>,
                      r3 # 0)

\* score * weight and left + right, each rounded as the language rounds it.
Times(score, weight) == RoundToDouble(FxTimes(weight, score), FALSE)

Plus(left, right) == RoundToDouble(FxAdd(left, right), FALSE)

\* Number(x.toFixed(1)), in tenths: toFixed takes the integer n for which
\* n / 10 - x is closest to zero, the larger n when there are two.
toFixed1(x) ==
    LET y == FxTimes(x, 10)
    IN  y[1] + (IF 2 * y[2] >= Limb THEN 1 ELSE 0)

WEIGHTS ==
    [station |-> Literal(25, 100),
     supermarkets |-> Literal(25, 100),
     restaurants |-> Literal(2, 10),
     convenience |-> Literal(15, 100),
     parks |-> Literal(15, 100)]

\* The overall score with its fraction cut off instead of rounded.
OverallTruncated(station, supermarkets, restaurants, convenience, parks) ==
    FxTimes(Plus(Plus(Plus(Plus(Times(station, WEIGHTS.station),
                                Times(supermarkets, WEIGHTS.supermarkets)),
                           Times(restaurants, WEIGHTS.restaurants)),
                      Times(convenience, WEIGHTS.convenience)),
                 Times(parks, WEIGHTS.parks)), 10)[1]

\* The overall score of computeScore, in tenths.
Overall(station, supermarkets, restaurants, convenience, parks) ==
    toFixed1(Plus(Plus(Plus(Plus(Times(station, WEIGHTS.station),
                                 Times(supermarkets, WEIGHTS.supermarkets)),
                            Times(restaurants, WEIGHTS.restaurants)),
                       Times(convenience, WEIGHTS.convenience)),
                  Times(parks, WEIGHTS.parks)))

\* The values a scale takes on the inputs 0..MaxCount.
ScoresOf(scale) == {SubScore(scale, input) : input \in Inputs}

\* ------------------------------------------------------------ enrichment
MaxListings == 3    \* listing identifiers of a batch are 1..MaxListings
MaxBatches == 2     \* batches per behaviour
MaxTicks == 3       \* the enrichment clock ticks every half week, 0..MaxTicks

SCORE_TTL_TICKS == 2                \* SCORE_TTL_SECONDS = 7 * 24 * 60 * 60
RATE_LIMIT_DELAY_MS == 2000         \* between two listings of computeScores
COMMUTE_RATE_LIMIT_DELAY_MS == 200  \* between two listings of computeCommutes
debugLimit == 1                     \* properties.slice(0, debugLimit)

Listings == 1..MaxListings

\* computeScores, computeCommutes as in lib/commute.ts, and computeCommutes as
\* in the other copy of that file, which keeps a debugging limit.
Engines == {"computeScores", "computeCommutes", "computeCommutesDebug"}

Null == [null |-> TRUE]

\* The batches: every list of up to MaxListings listings, each listed once.
Batches ==
    {b \in UNION {[1..n -> Listings] : n \in 0..MaxListings} :
        \A i, j \in DOMAIN b : b[i] = b[j] => i = j}

\* The listing a batch entry describes: the walk to the station is a fixed
\* attribute of the listing.
PropertyInput(id) == [id |-> id, nearestStationMinutes |-> 4 * id]

\* What the amenity query finds around a listing (nothing around listing 1)
\* and what the routing service can answer.
AmenityCountsAt(id) ==
    [supermarkets |-> id - 1, restaurants |-> 6 * (id - 1),
     convenience |-> id - 1, parks |-> id - 1]

RouteAnswers == {[durationMinutes |-> 32, transferCount |-> 1]}

\* The score record computeScore builds from the counts.
Score(property, counts, now) ==
    LET station == scoreStation(property.nearestStationMinutes)
        supermarkets == scoreSupermarkets(counts.supermarkets)
        restaurants == scoreRestaurants(counts.restaurants)
        convenience == scoreConvenience(counts.convenience)
        parks == scoreParks(counts.parks)
    IN  [propertyId |-> property.id,
         overall |-> Overall(station, supermarkets, restaurants,
                             convenience, parks),
         station |-> station,
         supermarkets |-> supermarkets,
         restaurants |-> restaurants,
         convenience |-> convenience,
         parks |-> parks,
         counts |-> [supermarkets |-> counts.supermarkets,
                     restaurants |-> counts.restaurants,
                     convenience |-> counts.convenience,
                     parks |-> counts.parks,
                     nearestStationMinutes |->
                         property.nearestStationMinutes],
         computedAt |-> now]

\* The zero score computeScores substitutes on error.
ZeroScore(property, now) ==
    [propertyId |-> property.id,
     overall |-> 0,
     station |-> 0,
     supermarkets |-> 0,
     restaurants |-> 0,
     convenience |-> 0,
     parks |-> 0,
     counts |-> [supermarkets |-> 0,
                 restaurants |-> 0,
                 convenience |-> 0,
                 parks |-> 0,
                 nearestStationMinutes |-> property.nearestStationMinutes],
     computedAt |-> now]

Commute(property, route, now) ==
    [propertyId |-> property.id,
     durationMinutes |-> route.durationMinutes,
     durationText |-> <<route.durationMinutes, " min">>,
     transferCount |-> route.transferCount,
     computedAt |-> now]

\* The placeholder computeCommutes substitutes on error.
ZeroCommute(property, now) ==
    [propertyId |-> property.id,
     durationMinutes |-> 0,
     durationText |-> <<>>,
     transferCount |-> 0,
     computedAt |-> now]

\* The score cache: livability:score:<id>, each entry with its expiry.
getCachedScore(scores, propertyId, now) ==
    IF scores[propertyId] # Null /\ now < scores[propertyId].expires
    THEN scores[propertyId].value
    ELSE Null

setCachedScoreForEver(scores, score, now) ==
    [scores EXCEPT ![score.propertyId] =
        [value |-> score, expires |-> MaxTicks + SCORE_TTL_TICKS + now]]

setCachedScore(scores, score, now) ==
    [scores EXCEPT ![score.propertyId] =
        [value |-> score, expires |-> now + SCORE_TTL_TICKS]]

\* The keys the store drops when the clock reaches `now`.
Expired(scores, now) ==
    {id \in Listings : scores[id] # Null /\ scores[id].expires <= now}

\* The commute cache: entries are kept until they are overwritten.
getCachedCommute(commutes, propertyId) == commutes[propertyId]

setCachedCommute(commutes, commute) ==
    [commutes EXCEPT ![commute.propertyId] = commute]

\* The two engines' delays taken for each other.
DelaySwapped(engine) ==
    IF engine = "computeScores"
    THEN COMMUTE_RATE_LIMIT_DELAY_MS
    ELSE RATE_LIMIT_DELAY_MS

Delay(engine) ==
    IF engine = "computeScores"
    THEN RATE_LIMIT_DELAY_MS
    ELSE COMMUTE_RATE_LIMIT_DELAY_MS

\* The listings the batch loops over.
Limited(engine, properties) ==
    IF engine = "computeCommutesDebug"
    THEN SubSeq(properties, 1, Min({debugLimit, Len(properties)}))
    ELSE properties

NoCaches ==
    [scores |-> [id \in Listings |-> Null],
     commutes |-> [id \in Listings |-> Null]]

IdleEnr ==
    [pc |-> "idle",             \* where the batch is
     engine |-> "computeScores",
     properties |-> <<>>,       \* the batch's argument
     limited |-> <<>>,          \* the listings it loops over
     i |-> 0,                   \* the loop index, from 1
     local |-> Null,            \* the record built for listing i
     results |-> <<>>,          \* scores / commutes pushed so far
     now |-> 0,                 \* the clock, in half weeks
     scores |-> NoCaches.scores,
     commutes |-> NoCaches.commutes,
     batches |-> 0,             \* batches started
     outstanding |-> 0,         \* external requests in flight
     slept |-> 0,               \* the delay before listing i, in ms
     queried |-> {},            \* loop indexes that sent an external request
     start |-> NoCaches,        \* the caches when the batch started
     failed |-> {},             \* loop indexes whose computation threw
     gone |-> {}]               \* entries expired since the batch started

\* The listing in hand.
Property(e) == PropertyInput(e.limited[e.i])

\* result pushed on the result list; then the delay, or the return.
Pushed(e, result) ==
    [e EXCEPT !.results = Append(@, result),
              !.local = Null,
              !.pc = IF e.i < Len(e.limited) THEN "sleep" ELSE "done"]

\* A loop without the try: the error leaves the batch.
CaughtRethrown(e) == [e EXCEPT !.pc = "aborted", !.failed = @ \cup {e.i}]

\* A catch block that also caches the zero score.
CaughtCached(e) ==
    LET zero == ZeroScore(Property(e), e.now)
    IN  Pushed([e EXCEPT !.failed = @ \cup {e.i},
                         !.scores = setCachedScore(@, zero, e.now)],
               zero)

\* The catch block of the loop: the placeholder is pushed, after being
\* written to the cache in the copy that caches failures.
Caught(e) ==
    LET f == [e EXCEPT !.failed = @ \cup {e.i}]
    IN  IF e.engine = "computeScores"
        THEN Pushed(f, ZeroScore(Property(e), e.now))
        ELSE IF e.engine = "computeCommutes"
        THEN Pushed(f, ZeroCommute(Property(e), e.now))
        ELSE [f EXCEPT !.pc = "catch",
                       !.local = ZeroCommute(Property(e), e.now)]

\* -------------------------------------------------------- departure time
\* An instant is a number of half hours since 1970-01-01T00:00Z, a Thursday;
\* the operators below are those of Date on its UTC fields.
MaxInstant == 671   \* `now` ranges over two weeks of half hours

Instants == 0..MaxInstant

Hour == 2

Day == 24 * Hour

getUTCDay(t) == (4 + t \div Day) % 7

\* t.setUTCDate(t.getUTCDate() + days)
addUTCDate(t, days) == t + days * Day

\* t.setUTCHours(hours, 0, 0, 0): an hour below zero is an hour of the day
\* before.
setUTCHours(t, hours) == (t \div Day) * Day + hours * Hour

getNextWeekdayMorning(now) ==
    LET jstNow == now + 9 * Hour
        tomorrow == addUTCDate(jstNow, 1)
        morning == setUTCHours(tomorrow, 8 - 9)
        day == getUTCDay(morning)
        afterSunday == IF day = 0 THEN addUTCDate(morning, 1) ELSE morning
        afterSaturday ==
            IF day = 6 THEN addUTCDate(afterSunday, 2) ELSE afterSunday
    IN  IF afterSaturday < now
        THEN addUTCDate(afterSaturday, 7)
        ELSE afterSaturday

\* ------------------------------------------------------ bracket extractor
MaxNesting == 1     \* arrays nested inside the extracted array, in depth
MaxElems == 2       \* elements of an array

Open == "["
Close == "]"
Quote == "\""
Backslash == "\\"
Other == "a"

Malformed == [ok |-> FALSE, value |-> <<>>]

ScanStart == [depth |-> 0, inString |-> FALSE, escaped |-> FALSE]

\* A loop body that does not know the backslash.
ScanCharNoEscape(st, char) ==
    IF char = Quote THEN [st EXCEPT !.inString = ~@]
    ELSE IF st.inString THEN st
    ELSE IF char = Open THEN [st EXCEPT !.depth = @ + 1]
    ELSE IF char = Close THEN [st EXCEPT !.depth = @ - 1]
    ELSE st

\* The body of the loop on one character.
ScanChar(st, char) ==
    IF st.escaped THEN [st EXCEPT !.escaped = FALSE]
    ELSE IF char = Backslash THEN [st EXCEPT !.escaped = TRUE]
    ELSE IF char = Quote THEN [st EXCEPT !.inString = ~@]
    ELSE IF st.inString THEN st
    ELSE IF char = Open THEN [st EXCEPT !.depth = @ + 1]
    ELSE IF char = Close THEN [st EXCEPT !.depth = @ - 1]
    ELSE st

\* The loop from index i (indexes from 0, as in the source): it returns at
\* the closing bracket that takes the depth to zero, and throws at the end
\* of the string.
RECURSIVE Scan(_, _, _, _)
Scan(str, startIdx, i, st) ==
    IF i >= Len(str)
    THEN Malformed
    ELSE LET char == str[i + 1]
             next == ScanChar(st, char)
         IN  IF char = Close /\ next.depth = 0 /\ next.depth # st.depth
             THEN [ok |-> TRUE, value |-> SubSeq(str, startIdx + 1, i + 1)]
             ELSE Scan(str, startIdx, i + 1, next)

extractBalancedArray(str, startIdx) == Scan(str, startIdx, startIdx, ScanStart)

\* The texts the extractor is tried on.  A string literal runs from a quote
\* to the next quote that no backslash precedes; outside literals a backslash
\* and the character after it are inert.
Literals ==
    {<<Quote>> \o content \o <<Quote>> :
        content \in {<<>>, <<Close>>, <<Backslash, Quote, Close>>,
                     <<Backslash, Backslash>>,
                     <<Close, Backslash, Quote, Open>>}}

Escapes == {<<Backslash, Quote>>, <<Backslash, Open>>, <<Backslash, Close>>}

RECURSIVE Flatten(_)
Flatten(elems) ==
    IF elems = <<>> THEN <<>> ELSE Head(elems) \o Flatten(Tail(elems))

\* The arrays with up to MaxElems elements and nesting up to `nesting`.
RECURSIVE Arrays(_)
Arrays(nesting) ==
    LET items == {<<Other>>} \cup Escapes \cup Literals
                   \cup (IF nesting = 0 THEN {} ELSE Arrays(nesting - 1))
    IN  {<<Open>> \o Flatten(elems) \o <<Close>> :
            elems \in UNION {[1..n -> items] : n \in 0..MaxElems}}

Prefixes == {<<>>, <<Close, Quote>>}

Suffixes == {<<>>, <<Close>>, <<Quote, Close>>}

\* ------------------------------------------------------- listing parser
MaxPayload == 5     \* characters of a payload tried exhaustively

WINDOW == 500000    \* substring(startIdx, startIdx + 500000)

OpenBrace == "{"
CloseBrace == "}"
Key == "K"          \* the escaped key of the listings: \"properties\":
Placeholder == "P"  \* __ESCAPED_QUOTE__

emptyMarker == <<Key, Open, Close>>

marker == <<Key, Open, OpenBrace>>

Matches(str, pat, i) ==
    /\ i + Len(pat) <= Len(str)
    /\ \A k \in 1..Len(pat) : str[i + k] = pat[k]

\* String.prototype.indexOf, indexes from 0; -1 when pat does not occur.
indexOf(str, pat, from) ==
    LET hits == {i \in from..Len(str) : Matches(str, pat, i)}
    IN  IF hits = {} THEN -1 ELSE Min(hits)

\* A test that only looks at the head of the string.
startsWith(str, pat) == Matches(str, pat, 0)

includes(str, pat) == indexOf(str, pat, 0) # -1

\* String.prototype.replace with a global pattern: the matches from left to
\* right, none overlapping another.
RECURSIVE replaceAll(_, _, _)
replaceAll(str, pat, rep) ==
    IF str = <<>> THEN <<>>
    ELSE IF Matches(str, pat, 0)
    THEN rep \o replaceAll(SubSeq(str, Len(pat) + 1, Len(str)), pat, rep)
    ELSE <<Head(str)>> \o replaceAll(Tail(str), pat, rep)

\* One level of escaping taken off: \\" is kept as \", \" becomes ", and
\* the escaped line feeds and tabs lose one backslash.
Unescape(str) ==
    LET a == replaceAll(str, <<Backslash, Backslash, Quote>>, <<Placeholder>>)
        b == replaceAll(a, <<Backslash, Quote>>, <<Quote>>)
        c == replaceAll(b, <<Placeholder>>, <<Backslash, Quote>>)
        d == replaceAll(c, <<Backslash, Backslash, "n">>, <<Backslash, "n">>)
    IN  replaceAll(d, <<Backslash, Backslash, "t">>, <<Backslash, "t">>)

\* JSON.parse on the characters of the model: a value is another character,
\* a string, an array or an object; keys, colons and commas are not
\* characters of their own, a key is allowed in front of a value of an
\* object.  Each operator returns the index after what it read, 0 for a
\* SyntaxError.
RECURSIVE JsonString(_, _)
JsonString(str, i) ==
    IF i > Len(str) THEN 0
    ELSE IF str[i] = Quote THEN i + 1
    ELSE IF str[i] = Backslash
    THEN IF i + 1 <= Len(str) /\ str[i + 1] \in {Quote, Backslash, "n", "t"}
         THEN JsonString(str, i + 2)
         ELSE 0
    ELSE JsonString(str, i + 1)

RECURSIVE JsonValue(_, _)
RECURSIVE JsonElements(_, _, _, _)
JsonValue(str, i) ==
    IF i > Len(str) THEN 0
    ELSE CASE str[i] = Other -> i + 1
           [] str[i] = Quote -> JsonString(str, i + 1)
           [] str[i] = Open -> JsonElements(str, i + 1, Close, 0).next
           [] str[i] = OpenBrace ->
                 JsonElements(str, i + 1, CloseBrace, 0).next
           [] OTHER -> 0

JsonElements(str, i, closer, n) ==
    IF i > Len(str) THEN [next |-> 0, count |-> n]
    ELSE IF str[i] = closer THEN [next |-> i + 1, count |-> n]
    ELSE LET at == IF str[i] = Key /\ closer = CloseBrace THEN i + 1 ELSE i
             after == JsonValue(str, at)
         IN  IF after = 0
             THEN [next |-> 0, count |-> n]
             ELSE JsonElements(str, after, closer, n + 1)

SyntaxError == [ok |-> FALSE, value |-> 0]

\* The parsed array is stood for by the number of its elements.
JSONparse(str) ==
    IF JsonValue(str, 1) # Len(str) + 1 THEN SyntaxError
    ELSE [ok |-> TRUE,
          value |-> IF str[1] = Open
                    THEN JsonElements(str, 2, Close, 0).count
                    ELSE 0]

\* What the parser did: the listings it returned or the error it threw, the
\* return or throw statement it left by, and the functions it called.
Returned(value, path, calls) ==
    [raised |-> FALSE, value |-> value, path |-> path, calls |-> calls]

Raised(path, calls) ==
    [raised |-> TRUE, value |-> 0, path |-> path, calls |-> calls]

extractPropertiesFallback(rscPayload) ==
    LET calls == {"extractBalancedArray", "extractPropertiesFallback"}
        startIdx == indexOf(rscPayload, marker, 0)
    IN  IF startIdx = -1 THEN Returned(0, "fallback: missing", calls)
        ELSE
        LET chunk == SubSeq(rscPayload, startIdx + 1,
                            Min({Len(rscPayload), startIdx + WINDOW}))
            unescaped == Unescape(chunk)
            arrayStart == indexOf(unescaped, <<Open, OpenBrace>>, 0)
        IN  IF arrayStart = -1 THEN Returned(0, "fallback: no array", calls)
            ELSE
            LET arrayContent == extractBalancedArray(unescaped, arrayStart)
            IN  IF ~arrayContent.ok THEN Raised("fallback: extractor", calls)
                ELSE
                LET parsed == JSONparse(arrayContent.value)
                IN  IF parsed.ok
                    THEN Returned(parsed.value, "fallback", calls)
                    ELSE Returned(0, "fallback: syntax", calls)

extractProperties(rscPayload) ==
    IF includes(rscPayload, emptyMarker) THEN Returned(0, "empty", {})
    ELSE
    LET startIdx == indexOf(rscPayload, marker, 0)
    IN  IF startIdx = -1 THEN Returned(0, "missing", {})
        ELSE
        LET arrayStartIdx == indexOf(rscPayload, <<Open, OpenBrace>>, startIdx)
        IN  IF arrayStartIdx = -1 THEN Raised("no array", {})
            ELSE
            LET arrayJson == extractBalancedArray(rscPayload, arrayStartIdx)
            IN  IF ~arrayJson.ok
                THEN Raised("extractor", {"extractBalancedArray"})
                ELSE
                LET parsed == JSONparse(Unescape(arrayJson.value))
                IN  IF parsed.ok
                    THEN Returned(parsed.value, "strict",
                                  {"extractBalancedArray"})
                    ELSE extractPropertiesFallback(rscPayload)

PayloadChars ==
    {Key, Open, Close, OpenBrace, CloseBrace, Quote, Backslash, Other}

\* Payloads in the site's escaping: one listing; one listing with a name
\* that holds a closing bracket; the same cut short; one listing with a
\* name that holds an opening bracket; two listings.
Samples ==
    {<<Other, Key, Open, OpenBrace, Backslash, Quote, Other, Backslash, Quote,
       CloseBrace, Close, Other>>,
     <<Other, Key, Open, OpenBrace, Backslash, Quote, Close, Backslash, Quote,
       CloseBrace, Close, Other>>,
     <<Other, Key, Open, OpenBrace, Backslash, Quote, Close, Backslash, Quote,
       CloseBrace>>,
     <<Other, Key, Open, OpenBrace, Backslash, Quote, Open, Backslash, Quote,
       CloseBrace, Close, Other>>,
     <<Key, Open, OpenBrace, Other, CloseBrace, OpenBrace, Backslash, Quote,
       Backslash, Quote, CloseBrace, Close>>}

\* ------------------------------------------------------ nearest station
MaxStations == 3    \* stations of a listing
MaxWalk == 2        \* pivot_walking_distance_minutes of a station

StationNames == {"Ebisu", "Meguro", "Shibuya"}

Stations == [name : StationNames, minutes : 0..MaxWalk]

\* A reducer that also takes a station as far as the nearest so far.
NearerOrEqual(nearest, station) ==
    IF nearest = Null \/ station.minutes <= nearest.minutes
    THEN station
    ELSE nearest

\* The callback of reduce: !nearest || station.minutes < nearest.minutes
Nearer(nearest, station) ==
    IF nearest = Null \/ station.minutes < nearest.minutes
    THEN station
    ELSE nearest

\* prop.trainStations.reduce(callback, null)
RECURSIVE reduce(_, _)
reduce(trainStations, nearest) ==
    IF trainStations = <<>> THEN nearest
    ELSE reduce(Tail(trainStations), Nearer(nearest, Head(trainStations)))

\* nearestStation and walkingMinutes of the notification record.
RecordStation(trainStations) ==
    LET nearestStation == reduce(trainStations, Null)
    IN  [name |-> IF nearestStation = Null THEN "Unknown"
                  ELSE nearestStation.name,
         minutes |-> IF nearestStation = Null THEN 0
                     ELSE nearestStation.minutes]

\* The parts that formatPropertySummary pushes for the station.
SummaryStation(trainStations) ==
    LET nearestStation == reduce(trainStations, Null)
    IN  IF nearestStation # Null
        THEN <<[name |-> nearestStation.name,
                minutes |-> nearestStation.minutes]>>
        ELSE <<>>

\* --------------------------------------------------------- scores query
MaxField == 3       \* characters of the walk-minutes field of a descriptor

DEFAULT_WALK == 15  \* parseInt(walkMin) || 15

Digits == <<"0", "1", "2", "3", "4", "5", "6", "7", "8", "9">>

FieldChars == {"0", "1", "3", "6", "a"}

\* A parsed number: NaN, or the number n.
NaN == [nan |-> TRUE, n |-> 0]

Number(n) == [nan |-> FALSE, n |-> n]

\* The field that entry.split(':') leaves undefined.
Missing == <<"undefined">>

DigitValue(char) == CHOOSE d \in 0..9 : Digits[d + 1] = char

IsDigit(char) == \E d \in 0..9 : Digits[d + 1] = char

\* The decimal digits at the head of the text, read as a number.
RECURSIVE Leading(_, _)
Leading(str, n) ==
    IF str = <<>> \/ ~IsDigit(Head(str)) THEN n
    ELSE Leading(Tail(str), 10 * n + DigitValue(Head(str)))

\* parseInt of a text without sign, blanks or radix prefix: NaN unless it
\* starts with a digit.
parseInt(str) ==
    IF str = <<>> \/ ~IsDigit(Head(str)) THEN NaN ELSE Number(Leading(str, 0))

\* A default that replaces only what is no number.
OrIfNaN(value, default) == IF value.nan THEN default ELSE value.n

\* value || default: the default replaces every falsy value, NaN and 0.
Or(value, default) ==
    IF value.nan \/ value.n = 0 THEN default ELSE value.n

\* The descriptor's walk-minutes as the Scores query hands them to
\* computeScores.
nearestStationMinutes(walkMin) == Or(parseInt(walkMin), DEFAULT_WALK)

NoCalc == [fn |-> "none"]

Init ==
    /\ known = {}
    /\ latest = <<>>
    /\ lastPoll = NoTimestamp
    /\ filters = NoFilters
    /\ subs = {}
    /\ history = <<>>
    /\ vapid \in BOOLEAN
    /\ clock = 0
    /\ loc = [p \in Procs |-> IdleLoc]
    /\ gh = [p \in Procs |-> IdleGh]
    /\ seeded = FALSE
    /\ last = NoLast
    /\ appended = <<>>
    /\ amen = IdleAmen
    /\ calc = NoCalc
    /\ enr = IdleEnr

Pc(p) == loc[p].pc

\* -------------------------------------------------------------- the steps
\* A handler is invoked: POST /api/poll, POST /api/refresh, or POST
\* /api/settings with the ward list w.  The settings handler validates first.
Start(p, o, w) ==
    /\ Pc(p) = "idle"
    /\ clock' = clock + 1
    /\ loc' = [loc EXCEPT ![p] =
                 [IdleLoc EXCEPT !.op = o,
                                 !.ts = clock + 1,
                                 !.wards = w,
                                 !.pc = IF o = "settings" /\ ~ValidFilters(w)
                                        THEN "rejected"
                                        ELSE After(o, "start")]]
    /\ gh' = [q \in Procs |->
                IF q = p
                THEN [IdleGh EXCEPT !.start = StartOfCycle, !.onlyWriter = TRUE]
                ELSE gh[q]]
    /\ UNCHANGED <<calc, enr, appended, amen, known, latest, lastPoll, filters, subs, history, vapid,
                   seeded, last>>

\* fetchProperties: read the filters (DEFAULT_FILTERS when the read throws),
\* fetch the search page, which shows the listings onSite at that instant, and
\* parse it.  The parser yields the listings, or the empty list for a payload
\* it cannot read.
Fetch(p) ==
    /\ Pc(p) = "fetch"
    /\ \E f \in {GetFilterSettings(filters), DEFAULT_FILTERS} :
       \E onSite \in SUBSET Ids :
       \E got \in {Search(f, onSite), <<>>} :
          loc' = [loc EXCEPT ![p].properties = got,
                             ![p].pc = After(loc[p].op, "fetch")]
    /\ gh' = [gh EXCEPT ![p].fetched = TRUE]
    /\ UNCHANGED <<calc, enr, appended, amen, known, latest, lastPoll, filters, subs, history, vapid,
                   clock, seeded, last>>

\* The highest listing identifier the program has seen so far.
HighestSeen ==
    Max({0} \cup known \cup CurrentIds(latest)
            \cup {appended[i].propertyId : i \in 1..Len(appended)})

\* fetchProperties when the site lists exactly k listings that match the
\* filters, all of them published after every listing seen so far.
FetchFresh(p, k) ==
    /\ Pc(p) = "fetch"
    /\ LET f == GetFilterSettings(filters)
           candidates == {i \in (HighestSeen + 1)..(HighestSeen + 2 * k) :
                             WardOf(i) \in f}
           onSite == {i \in candidates :
                         Cardinality({j \in candidates : j < i}) < k}
       IN loc' = [loc EXCEPT ![p].properties = Search(f, onSite),
                             ![p].pc = After(loc[p].op, "fetch")]
    /\ gh' = [gh EXCEPT ![p].fetched = TRUE]
    /\ UNCHANGED <<calc, enr, appended, amen, known, latest, lastPoll, filters, subs,
                   history, vapid, clock, seeded, last>>

\* poll, steps 2-4: read the known identifiers, diff, and decide on dispatch.
ReadKnown(p) ==
    /\ Pc(p) = "readKnown"
    /\ LET knownIds == GetKnownPropertyIds(known)
           newProperties == DiffNew(loc[p].properties, knownIds)
           notify == ShouldNotify(newProperties, knownIds)
       IN /\ loc' = [loc EXCEPT ![p].knownIds = knownIds,
                                ![p].newProperties = newProperties,
                                ![p].pc = IF notify
                                          THEN After(loc[p].op, "readKnown")
                                          ELSE After(loc[p].op, "notify")]
          /\ gh' = [gh EXCEPT ![p].called = notify,
                              ![p].arg = IF notify THEN newProperties ELSE <<>>]
    /\ UNCHANGED <<calc, enr, appended, amen, known, latest, lastPoll, filters, subs, history, vapid,
                   clock, seeded, last>>

\* notifyNewProperties up to the registry read: returns [] for an empty list,
\* without VAPID keys, or with no subscription; otherwise builds the records
\* and the payload and starts one delivery per subscription.
Notify(p) ==
    /\ Pc(p) = "notify"
    /\ IF \/ Len(loc[p].newProperties) = 0
          \/ ~vapid
          \/ GetAllSubscriptions(subs) = {}
       THEN loc' = [loc EXCEPT ![p].returned = <<>>,
                               ![p].pc = After(loc[p].op, "notify")]
       ELSE loc' = [loc EXCEPT
                       ![p].subscriptions = GetAllSubscriptions(subs),
                       ![p].pending = Registered(GetAllSubscriptions(subs)),
                       ![p].notifications =
                           NotificationRecords(loc[p].newProperties),
                       ![p].payload = BuildPayload(loc[p].newProperties),
                       ![p].pc = "send"]
    /\ UNCHANGED <<calc, enr, appended, amen, known, latest, lastPoll, filters, subs, history, vapid,
                   clock, gh, seeded, last>>

\* sendPushNotification to endpoint e: delivered, or the transport reports the
\* endpoint gone (404/410) and the registration is removed (unless that
\* removal throws), or another failure that is only logged.
Send(p, e) ==
    /\ Pc(p) = "send"
    /\ e \in loc[p].pending
    /\ \E outcome \in DeliveryOutcomes :
          /\ subs' = AfterDelivery(subs, e, outcome)
          /\ loc' = [loc EXCEPT ![p].pending = StillPending(@, e, outcome)]
          /\ gh' = [gh EXCEPT ![p].sent = @ \cup {e},
                              ![p].delivered[e] = Append(@, loc[p].payload),
                              ![p].outcome[e] = outcome]
    /\ UNCHANGED <<calc, enr, appended, amen, known, latest, lastPoll, filters, history, vapid,
                   clock, seeded, last>>

\* After Promise.allSettled: addNotifications(notifications), then return.
Record(p) ==
    /\ Pc(p) = "send"
    /\ loc[p].pending = {}
    /\ history' = AddNotifications(history, loc[p].notifications)
    /\ appended' = appended \o loc[p].notifications
    /\ loc' = [loc EXCEPT ![p].returned = loc[p].notifications,
                          ![p].pc = After(loc[p].op, "notify")]
    /\ UNCHANGED <<calc, enr, amen, known, latest, lastPoll, filters, subs, vapid, clock,
                   gh, seeded, last>>

\* Bookkeeping for a write to properties:known by handler p: every other
\* handler in flight is no longer the only writer since it started.
OthersOverwritten(p) ==
    [q \in Procs |->
        IF q # p /\ Pc(q) # "idle"
        THEN [gh[q] EXCEPT !.onlyWriter = FALSE]
        ELSE gh[q]]

\* syncKnownPropertyIds(currentIds), first command of the pipeline: DEL.  With
\* no identifiers the pipeline holds nothing else.
SyncDel(p) ==
    /\ Pc(p) = "syncDel"
    /\ known' = Del(known)
    /\ loc' = [loc EXCEPT ![p].pc = IF Len(loc[p].properties) > 0
                                    THEN "syncAdd"
                                    ELSE After(loc[p].op, "sync")]
    /\ gh' = OthersOverwritten(p)
    /\ UNCHANGED <<calc, enr, appended, amen, latest, lastPoll, filters, subs, history, vapid, clock,
                   seeded, last>>

\* syncKnownPropertyIds(currentIds), second command of the pipeline: SADD.
SyncAdd(p) ==
    /\ Pc(p) = "syncAdd"
    /\ known' = Sadd(known, CurrentIds(loc[p].properties))
    /\ loc' = [loc EXCEPT ![p].pc = After(loc[p].op, "sync")]
    /\ gh' = OthersOverwritten(p)
    /\ UNCHANGED <<calc, enr, appended, amen, latest, lastPoll, filters, subs, history, vapid, clock,
                   seeded, last>>

\* setCachedListings(properties)
SetListings(p) ==
    /\ Pc(p) = "setListings"
    /\ latest' = loc[p].properties
    /\ loc' = [loc EXCEPT ![p].pc = After(loc[p].op, "setListings")]
    /\ UNCHANGED <<calc, enr, appended, amen, known, lastPoll, filters, subs, history, vapid, clock,
                   gh, seeded, last>>

\* The handler's last step: it has completed.
Completed(pc) == IF pc = "done" THEN TRUE ELSE seeded

\* setLastPollTimestamp: poll and refresh write the instant taken when the
\* handler started, settings the current instant.
SetTs(p) ==
    /\ Pc(p) = "setTs"
    /\ lastPoll' = IF loc[p].op = "settings" THEN clock ELSE loc[p].ts
    /\ loc' = [loc EXCEPT ![p].pc = After(loc[p].op, "setTs")]
    /\ seeded' = Completed(After(loc[p].op, "setTs"))
    /\ UNCHANGED <<calc, enr, appended, amen, known, latest, filters, subs, history, vapid, clock,
                   gh, last>>

\* refresh: getNotificationHistory() for the response.
GetHistory(p) ==
    /\ Pc(p) = "getHistory"
    /\ loc' = [loc EXCEPT ![p].pc = After(loc[p].op, "getHistory")]
    /\ seeded' = Completed(After(loc[p].op, "getHistory"))
    /\ UNCHANGED <<calc, enr, appended, amen, known, latest, lastPoll, filters, subs, history, vapid,
                   clock, gh, last>>

\* settings: setFilterSettings(filters)
SetFilters(p) ==
    /\ Pc(p) = "setFilters"
    /\ filters' = loc[p].wards
    /\ loc' = [loc EXCEPT ![p].pc = After(loc[p].op, "setFilters")]
    /\ UNCHANGED <<calc, enr, appended, amen, known, latest, lastPoll, subs, history, vapid, clock,
                   gh, seeded, last>>

\* settings: syncKnownPropertyIds([]), a pipeline of the single command DEL.
ClearKnown(p) ==
    /\ Pc(p) = "clearKnown"
    /\ known' = Del(known)
    /\ loc' = [loc EXCEPT ![p].pc = After(loc[p].op, "clearKnown")]
    /\ gh' = OthersOverwritten(p)
    /\ UNCHANGED <<calc, enr, appended, amen, latest, lastPoll, filters, subs, history, vapid, clock,
                   seeded, last>>

\* The steps that can throw: the upstream fetch (non-2xx, no flight data, an
\* unbalanced array), every store request, and the dispatcher's registry read
\* and history write.  A delivery never throws out of Promise.allSettled.
CanThrow(p) ==
    \/ Pc(p) \in {"fetch", "readKnown", "syncDel", "setListings", "setTs",
                  "getHistory", "setFilters", "clearKnown"}
    \/ Pc(p) = "notify" /\ Len(loc[p].newProperties) > 0 /\ vapid
    \/ Pc(p) = "send" /\ loc[p].pending = {}

\* The handler's catch block: a 500 response, nothing undone.
Throw(p) ==
    /\ CanThrow(p)
    /\ loc' = [loc EXCEPT ![p].pc = "failed"]
    /\ gh' = [gh EXCEPT ![p].fetched = @ \/ Pc(p) = "fetch",
                        ![p].raisedAt = Pc(p)]
    /\ UNCHANGED <<calc, enr, appended, amen, known, latest, lastPoll, filters, subs, history, vapid,
                   clock, seeded, last>>

\* What has returned since the last completed poll, once handler p returns.
Since(p) ==
    IF loc[p].op = "poll" /\ Pc(p) = "done" THEN "nothing"
    ELSE IF /\ loc[p].op = "refresh" /\ Pc(p) = "done"
            /\ last.since \in {"nothing", "refresh"}
    THEN "refresh"
    ELSE IF /\ loc[p].op = "poll" /\ gh[p].raisedAt \in {"notify", "send"}
            /\ last.since \in {"nothing", "raised"}
    THEN "raised"
    ELSE "other"

\* The response is sent.
Return(p) ==
    /\ Pc(p) \in {"done", "failed", "rejected"}
    /\ last' = [op |-> loc[p].op, ok |-> Pc(p) = "done",
                fresh |-> /\ Pc(p) = "done"
                          /\ CurrentIds(loc[p].properties) \ gh[p].start.known # {},
                polled |-> IF loc[p].op = "poll" /\ Pc(p) = "done"
                           THEN CurrentIds(loc[p].properties)
                           ELSE last.polled,
                since |-> Since(p)]
    /\ loc' = [loc EXCEPT ![p] = IdleLoc]
    /\ gh' = [gh EXCEPT ![p] = IdleGh]
    /\ UNCHANGED <<calc, enr, appended, amen, known, latest, lastPoll, filters, subs, history, vapid,
                   clock, seeded>>

\* ---------------------------------------------------------- the environment
\* POST /api/subscribe with action 'subscribe': addSubscription of the record
\* built from the endpoint and its key pair.
Subscribe(e, k) ==
    /\ subs' = AddSubscription(subs, [endpoint |-> e, keys |-> k])
    /\ UNCHANGED <<calc, enr, appended, amen, known, latest, lastPoll, filters, history, vapid,
                   clock, loc, gh, seeded, last>>

\* POST /api/subscribe with action 'unsubscribe': removeSubscription.
Unsubscribe(e) ==
    /\ subs' = RemoveSubscription(subs, e)
    /\ UNCHANGED <<calc, enr, appended, amen, known, latest, lastPoll, filters, history, vapid,
                   clock, loc, gh, seeded, last>>

\* ------------------------------------------------------- fetchAmenityCounts
\* computeScore calls fetchAmenityCounts: the first attempt on the first
\* mirror is made without delay.
AmenityStart ==
    /\ amen.pc = "idle"
    /\ amen' = [IdleAmen EXCEPT !.pc = "request"]
    /\ UNCHANGED <<calc, enr, appended, known, latest, lastPoll, filters, subs, history,
                   vapid, clock, loc, gh, seeded, last>>

\* The sleep before a retry.
AmenitySleep ==
    /\ amen.pc = "backoff"
    /\ amen' = [amen EXCEPT !.slept = Backoff(amen.attempt), !.pc = "request"]
    /\ UNCHANGED <<calc, enr, appended, known, latest, lastPoll, filters, subs, history,
                   vapid, clock, loc, gh, seeded, last>>

\* fetch(serverUrl, {method, headers, body}) is issued, with no AbortSignal:
\* the call settles when the mirror answers or the connection fails, which
\* the mirror may never do.
AmenityRequest ==
    /\ amen.pc = "request"
    /\ \E responds \in BOOLEAN :
          amen' = [amen EXCEPT !.responds = responds, !.pc = "awaiting"]
    /\ UNCHANGED <<calc, enr, appended, known, latest, lastPoll, filters, subs, history,
                   vapid, clock, loc, gh, seeded, last>>

\* The awaited fetch settles and the loop body handles the outcome.
AmenityRespond ==
    /\ amen.pc = "awaiting"
    /\ amen.responds
    /\ \E outcome \in ResponseOutcomes :
          LET next == AfterResponse(amen.server, amen.attempt, outcome)
          IN amen' = [amen EXCEPT
                        !.log = Append(@, [server |-> amen.server,
                                           attempt |-> amen.attempt,
                                           slept |-> amen.slept,
                                           outcome |-> outcome]),
                        !.pc = next.pc,
                        !.server = next.server,
                        !.attempt = next.attempt,
                        !.slept = 0]
    /\ UNCHANGED <<calc, enr, appended, known, latest, lastPoll, filters, subs, history,
                   vapid, clock, loc, gh, seeded, last>>

AmenityStep == AmenitySleep \/ AmenityRequest \/ AmenityRespond

\* One scale of the rubric applied to one input (redis.ts:207-245).
Scale(scale, input) ==
    /\ calc = NoCalc
    /\ calc' = [fn |-> scale, arg |-> input, out |-> SubScore(scale, input)]
    /\ UNCHANGED <<known, latest, lastPoll, filters, subs, history, vapid,
                   clock, loc, gh, seeded, last, appended, amen, enr>>

\* The weighted average computeScore takes of five sub-scores.
Weigh(station, supermarkets, restaurants, convenience, parks) ==
    /\ calc = NoCalc
    /\ calc' = [fn |-> "overall",
                arg |-> [station |-> station, supermarkets |-> supermarkets,
                         restaurants |-> restaurants,
                         convenience |-> convenience, parks |-> parks],
                out |-> Overall(station, supermarkets, restaurants,
                                convenience, parks)]
    /\ UNCHANGED <<known, latest, lastPoll, filters, subs, history, vapid,
                   clock, loc, gh, seeded, last, appended, amen, enr>>

\* computeScores(properties) or computeCommutes(properties) is called.
BatchStart(engine, properties) ==
    /\ enr.pc \in {"idle", "done", "aborted"}
    /\ LET limited == Limited(engine, properties)
       IN  enr' = [enr EXCEPT
                      !.engine = engine,
                      !.properties = properties,
                      !.limited = limited,
                      !.i = IF limited = <<>> THEN 0 ELSE 1,
                      !.pc = IF limited = <<>> THEN "done" ELSE "read",
                      !.local = Null,
                      !.results = <<>>,
                      !.batches = @ + 1,
                      !.outstanding = 0,
                      !.slept = 0,
                      !.queried = {},
                      !.failed = {},
                      !.start = [scores |-> enr.scores,
                                 commutes |-> enr.commutes],
                      !.gone = {}]
    /\ UNCHANGED <<known, latest, lastPoll, filters, subs, history, vapid,
                   clock, loc, gh, seeded, last, appended, amen, calc>>

\* await getCachedScore / getCachedCommute: a hit is the result.
CacheRead ==
    /\ enr.pc = "read"
    /\ LET cached ==
               IF enr.engine = "computeScores"
               THEN getCachedScore(enr.scores, Property(enr).id, enr.now)
               ELSE getCachedCommute(enr.commutes, Property(enr).id)
       IN  enr' = IF cached # Null
                  THEN Pushed(enr, cached)
                  ELSE [enr EXCEPT !.pc = "query"]
    /\ UNCHANGED <<known, latest, lastPoll, filters, subs, history, vapid,
                   clock, loc, gh, seeded, last, appended, amen, calc>>

\* The store fails a cache read or a cache write of computeScore /
\* computeCommute: the call throws into the loop's catch.
CacheFails ==
    /\ enr.pc \in {"read", "write"}
    /\ enr' = Caught(enr)
    /\ UNCHANGED <<known, latest, lastPoll, filters, subs, history, vapid,
                   clock, loc, gh, seeded, last, appended, amen, calc>>

\* The external request for listing i goes out.
Request ==
    /\ enr.pc = "query"
    /\ enr' = [enr EXCEPT !.pc = "requested",
                          !.outstanding = @ + 1,
                          !.queried = @ \cup {enr.i}]
    /\ UNCHANGED <<known, latest, lastPoll, filters, subs, history, vapid,
                   clock, loc, gh, seeded, last, appended, amen, calc>>

\* fetchAmenityCounts returns the counts.
CountsArrive ==
    /\ enr.pc = "requested"
    /\ enr.engine = "computeScores"
    /\ enr' = [enr EXCEPT !.pc = "write",
                          !.outstanding = @ - 1,
                          !.local = Score(Property(enr),
                                          AmenityCountsAt(Property(enr).id),
                                          enr.now)]
    /\ UNCHANGED <<known, latest, lastPoll, filters, subs, history, vapid,
                   clock, loc, gh, seeded, last, appended, amen, calc>>

\* fetchCommuteFromGoogle returns the route.
RouteArrives(route) ==
    /\ enr.pc = "requested"
    /\ enr.engine # "computeScores"
    /\ enr' = [enr EXCEPT !.pc = "write",
                          !.outstanding = @ - 1,
                          !.local = Commute(Property(enr), route, enr.now)]
    /\ UNCHANGED <<known, latest, lastPoll, filters, subs, history, vapid,
                   clock, loc, gh, seeded, last, appended, amen, calc>>

\* The external query throws.
QueryFails ==
    /\ enr.pc = "requested"
    /\ enr' = Caught([enr EXCEPT !.outstanding = @ - 1])
    /\ UNCHANGED <<known, latest, lastPoll, filters, subs, history, vapid,
                   clock, loc, gh, seeded, last, appended, amen, calc>>

\* await setCachedScore / setCachedCommute, and the result is pushed.
CacheWrite ==
    /\ enr.pc = "write"
    /\ enr' = Pushed(
                 IF enr.engine = "computeScores"
                 THEN [enr EXCEPT !.scores =
                          setCachedScore(@, enr.local, enr.now)]
                 ELSE [enr EXCEPT !.commutes =
                          setCachedCommute(@, enr.local)],
                 enr.local)
    /\ UNCHANGED <<known, latest, lastPoll, filters, subs, history, vapid,
                   clock, loc, gh, seeded, last, appended, amen, calc>>

\* await setCachedCommute(errorPlaceholder) in the catch block.
CatchWrite ==
    /\ enr.pc = "catch"
    /\ enr' = Pushed([enr EXCEPT !.commutes =
                         setCachedCommute(@, enr.local)],
                     enr.local)
    /\ UNCHANGED <<known, latest, lastPoll, filters, subs, history, vapid,
                   clock, loc, gh, seeded, last, appended, amen, calc>>

\* The store fails that write: the error leaves computeCommutes.
CatchWriteFails ==
    /\ enr.pc = "catch"
    /\ enr' = [enr EXCEPT !.pc = "aborted", !.local = Null]
    /\ UNCHANGED <<known, latest, lastPoll, filters, subs, history, vapid,
                   clock, loc, gh, seeded, last, appended, amen, calc>>

\* The delay between two listings has elapsed.
Sleep ==
    /\ enr.pc = "sleep"
    /\ enr' = [enr EXCEPT !.pc = "read",
                          !.i = @ + 1,
                          !.slept = Delay(enr.engine)]
    /\ UNCHANGED <<known, latest, lastPoll, filters, subs, history, vapid,
                   clock, loc, gh, seeded, last, appended, amen, calc>>

\* Half a week passes; the store drops the scores whose expiry has come.
Tick ==
    /\ enr.now < MaxTicks
    /\ LET expired == Expired(enr.scores, enr.now + 1)
       IN  enr' = [enr EXCEPT
                      !.now = @ + 1,
                      !.scores = [id \in Listings |->
                                     IF id \in expired THEN Null ELSE @[id]],
                      !.gone = @ \cup expired]
    /\ UNCHANGED <<known, latest, lastPoll, filters, subs, history, vapid,
                   clock, loc, gh, seeded, last, appended, amen, calc>>

\* fetchCommuteFromGoogle takes the departure time at the instant `now`.
Depart(now) ==
    /\ calc = NoCalc
    /\ calc' = [fn |-> "getNextWeekdayMorning", arg |-> now,
                out |-> getNextWeekdayMorning(now)]
    /\ UNCHANGED <<known, latest, lastPoll, filters, subs, history, vapid,
                   clock, loc, gh, seeded, last, appended, amen, enr>>

\* The extractor on a text that holds a whole array at startIdx.
Extract(prefix, structure, suffix) ==
    /\ calc = NoCalc
    /\ calc' = [fn |-> "extractBalancedArray",
                arg |-> [str |-> prefix \o structure \o suffix,
                         startIdx |-> Len(prefix)],
                structure |-> structure,
                out |-> extractBalancedArray(prefix \o structure \o suffix,
                                             Len(prefix))]
    /\ UNCHANGED <<known, latest, lastPoll, filters, subs, history, vapid,
                   clock, loc, gh, seeded, last, appended, amen, enr>>

\* The extractor on a text that ends inside the array.
ExtractTruncated(prefix, structure, length) ==
    /\ calc = NoCalc
    /\ calc' = [fn |-> "extractBalancedArray",
                arg |-> [str |-> prefix \o SubSeq(structure, 1, length),
                         startIdx |-> Len(prefix)],
                structure |-> structure,
                out |-> extractBalancedArray(
                            prefix \o SubSeq(structure, 1, length),
                            Len(prefix))]
    /\ UNCHANGED <<known, latest, lastPoll, filters, subs, history, vapid,
                   clock, loc, gh, seeded, last, appended, amen, enr>>

\* The listing parser on the concatenated payload of a page.
Parse(rscPayload) ==
    /\ calc = NoCalc
    /\ calc' = [fn |-> "extractProperties",
                arg |-> rscPayload,
                out |-> extractProperties(rscPayload)]
    /\ UNCHANGED <<known, latest, lastPoll, filters, subs, history, vapid,
                   clock, loc, gh, seeded, last, appended, amen, enr>>

\* The nearest station of a listing, as the notification record and the
\* single-listing summary derive it.
Nearest(trainStations) ==
    /\ calc = NoCalc
    /\ calc' = [fn |-> "nearestStation",
                arg |-> trainStations,
                record |-> RecordStation(trainStations),
                summary |-> SummaryStation(trainStations)]
    /\ UNCHANGED <<known, latest, lastPoll, filters, subs, history, vapid,
                   clock, loc, gh, seeded, last, appended, amen, enr>>

\* The Scores query on one descriptor with the walk-minutes field walkMin,
\* up to the station sub-score that computeScore derives for it.
ScoreQuery(walkMin) ==
    /\ calc = NoCalc
    /\ calc' = [fn |-> "scores",
                arg |-> walkMin,
                nearestStationMinutes |-> nearestStationMinutes(walkMin),
                station |-> scoreStation(nearestStationMinutes(walkMin))]
    /\ UNCHANGED <<known, latest, lastPoll, filters, subs, history, vapid,
                   clock, loc, gh, seeded, last, appended, amen, enr>>

Step(p) ==
    \/ Fetch(p)
    \/ ReadKnown(p)
    \/ Notify(p)
    \/ \E e \in PushEndpoints : Send(p, e)
    \/ Record(p)
    \/ SyncDel(p)
    \/ SyncAdd(p)
    \/ SetListings(p)
    \/ SetTs(p)
    \/ GetHistory(p)
    \/ SetFilters(p)
    \/ ClearKnown(p)
    \/ Throw(p)
    \/ Return(p)

Environment ==
    \/ \E e \in Endpoints : Subscribe(e, 1)
    \/ \E e \in Endpoints : Unsubscribe(e)

\* Single flight (the design's assumption): the scheduler or the user invokes
\* a handler only when none is in flight.
Next ==
    \/ \E o \in Ops : \E w \in SUBSET Wards :
          /\ o # "settings" => w = {}
          /\ clock < MaxCycles
          /\ Start("a", o, w)
    \/ Step("a")
    \/ Environment

Spec == Init /\ [][Next]_vars

\* The store after a first poll has completed on a cold store: it fetched the
\* listings onSite that match DEFAULT_FILTERS at instant 1.  The VAPID keys are
\* configured.
InitSeeded ==
    /\ \E onSite \in SUBSET Ids :
          /\ latest = Search(DEFAULT_FILTERS, onSite)
          /\ known = CurrentIds(latest)
    /\ lastPoll = 1
    /\ filters = NoFilters
    /\ subs = {}
    /\ history = <<>>
    /\ vapid = TRUE
    /\ clock = 1
    /\ loc = [p \in Procs |-> IdleLoc]
    /\ gh = [p \in Procs |-> IdleGh]
    /\ seeded = TRUE
    /\ last = [op |-> "poll", ok |-> TRUE, fresh |-> known # {},
               polled |-> known, since |-> "nothing"]
    /\ appended = <<>>
    /\ amen = IdleAmen
    /\ calc = NoCalc
    /\ enr = IdleEnr

\* The platform invokes handlers concurrently: after the first poll, up to
\* MaxOverlap invocations, which may overlap.
NextConcurrent ==
    \/ \E p \in Procs : \E o \in Ops : \E w \in SUBSET Wards :
          /\ o # "settings" => w = {}
          /\ clock < 1 + MaxOverlap
          /\ Start(p, o, w)
    \/ \E p \in Procs : Step(p)
    \/ Environment

SpecConcurrent == InitSeeded /\ [][NextConcurrent]_vars

\* The store of a watcher in use: a settings update has saved both wards and
\* a poll has completed since, on the listings onSite at that instant.
InitWatching ==
    /\ \E onSite \in SUBSET Ids :
          /\ latest = Search(Wards, onSite)
          /\ known = CurrentIds(latest)
    /\ lastPoll = 2
    /\ filters = Wards
    /\ subs = {}
    /\ history = <<>>
    /\ vapid = TRUE
    /\ clock = 2
    /\ loc = [p \in Procs |-> IdleLoc]
    /\ gh = [p \in Procs |-> IdleGh]
    /\ seeded = TRUE
    /\ last = [op |-> "poll", ok |-> TRUE, fresh |-> known # {},
               polled |-> known, since |-> "nothing"]
    /\ appended = <<>>
    /\ amen = IdleAmen
    /\ calc = NoCalc
    /\ enr = IdleEnr

\* After that poll, MaxWatched polls and manual refreshes, one at a time,
\* while the browser registers and unregisters its endpoint.
NextCycles ==
    \/ \E o \in {"poll", "refresh"} :
          /\ clock < 2 + MaxWatched
          /\ Start("a", o, {})
    \/ Fetch("a")
    \/ ReadKnown("a")
    \/ Notify("a")
    \/ \E e \in Endpoints : Send("a", e)
    \/ Record("a")
    \/ SyncDel("a")
    \/ SyncAdd("a")
    \/ SetListings("a")
    \/ SetTs("a")
    \/ GetHistory("a")
    \/ Throw("a")
    \/ Return("a")
    \/ Environment

SpecCycles == InitWatching /\ [][NextCycles]_vars

\* The dispatcher on its own: after the first poll, one poll that finds up to
\* MaxNew fresh listings, followed up to the return of notifyNewProperties,
\* while browsers register and unregister the endpoints PushEndpoints.
NextDispatch ==
    \/ Start("a", "poll", {})
    \/ \E k \in 1..MaxNew : FetchFresh("a", k)
    \/ ReadKnown("a")
    \/ Notify("a")
    \/ \E e \in PushEndpoints : Send("a", e)
    \/ Record("a")
    \/ Throw("a")
    \/ \E e \in PushEndpoints : \E k \in KeyPairs : Subscribe(e, k)
    \/ \E e \in PushEndpoints : Unsubscribe(e)

SpecDispatch == InitSeeded /\ [][NextDispatch]_vars

\* The sizes of the batches of fresh listings in the history's checks: small
\* ones, and one larger than the history's bound.
BatchSizes == {1, 2, MAX_NOTIFICATIONS + 1}

\* The history over many polls: from a cold store, MaxHistoryCycles
\* uninterrupted polls that each find a batch of fresh listings, with the one
\* endpoint 1, which registers (again) at any time.
NextHistory ==
    \/ /\ clock < MaxHistoryCycles
       /\ Start("a", "poll", {})
    \/ \E k \in BatchSizes : FetchFresh("a", k)
    \/ ReadKnown("a")
    \/ Notify("a")
    \/ Send("a", 1)
    \/ Record("a")
    \/ SyncDel("a")
    \/ SyncAdd("a")
    \/ SetListings("a")
    \/ SetTs("a")
    \/ Return("a")
    \/ Subscribe(1, 1)

SpecHistory == Init /\ [][NextHistory]_vars

\* One amenity query, from its call to its return or failure.
NextAmenity ==
    \/ AmenityStart
    \/ AmenitySleep
    \/ AmenityRequest
    \/ AmenityRespond

SpecAmenity == Init /\ [][NextAmenity]_vars

\* The rubric on its own: each scale on every input, and the weighted average
\* on every combination of sub-scores the scales can produce.
NextRubric ==
    \/ \E scale \in Scales, input \in Inputs : Scale(scale, input)
    \/ \E station \in ScoresOf("station"),
          supermarkets \in ScoresOf("supermarkets"),
          restaurants \in ScoresOf("restaurants"),
          convenience \in ScoresOf("convenience"),
          parks \in ScoresOf("parks") :
            Weigh(station, supermarkets, restaurants, convenience, parks)

SpecRubric == Init /\ [][NextRubric]_vars

\* The enrichment engines do not use the push configuration.
InitEnrichment == Init /\ vapid

\* Scoring batches, one after the other, while time passes.
NextScoring ==
    \/ /\ enr.batches < MaxBatches
       /\ \E properties \in Batches : BatchStart("computeScores", properties)
    \/ CacheRead
    \/ CacheFails
    \/ Request
    \/ CountsArrive
    \/ QueryFails
    \/ CacheWrite
    \/ Sleep
    \/ Tick

SpecScoring == InitEnrichment /\ [][NextScoring]_vars

\* Commute batches of either copy of computeCommutes, one after the other.
NextCommute ==
    \/ /\ enr.batches < MaxBatches
       /\ \E engine \in Engines \ {"computeScores"}, properties \in Batches :
             BatchStart(engine, properties)
    \/ CacheRead
    \/ CacheFails
    \/ Request
    \/ \E route \in RouteAnswers : RouteArrives(route)
    \/ QueryFails
    \/ CacheWrite
    \/ CatchWrite
    \/ CatchWriteFails
    \/ Sleep

SpecCommute == InitEnrichment /\ [][NextCommute]_vars

\* Batches of all three engines, one after the other.
NextBatches ==
    \/ /\ enr.batches < MaxBatches
       /\ \E engine \in Engines, properties \in Batches :
             BatchStart(engine, properties)
    \/ CacheRead
    \/ CacheFails
    \/ Request
    \/ CountsArrive
    \/ \E route \in RouteAnswers : RouteArrives(route)
    \/ QueryFails
    \/ CacheWrite
    \/ CatchWrite
    \/ CatchWriteFails
    \/ Sleep

SpecBatches == InitEnrichment /\ [][NextBatches]_vars

\* The departure time, taken at any half hour of two weeks.
NextDeparture == \E now \in Instants : Depart(now)

SpecDeparture == InitEnrichment /\ [][NextDeparture]_vars

\* The extractor on every text: an array, whole or cut short, after a prefix
\* and before a suffix.
NextExtract ==
    \/ /\ calc = NoCalc
       /\ \E prefix \in Prefixes :
             \E structure \in Arrays(MaxNesting), suffix \in Suffixes :
             Extract(prefix, structure, suffix)
    \/ /\ calc = NoCalc
       /\ \E prefix \in Prefixes :
             \E structure \in Arrays(MaxNesting) :
             \E length \in 1..(Len(structure) - 1) :
                ExtractTruncated(prefix, structure, length)

SpecExtract == InitEnrichment /\ [][NextExtract]_vars

\* The listing parser on every short payload and on the samples.
NextParse ==
    \/ /\ calc = NoCalc
       /\ \E n \in 0..MaxPayload : \E rscPayload \in [1..n -> PayloadChars] :
             Parse(rscPayload)
    \/ /\ calc = NoCalc
       /\ \E rscPayload \in Samples : Parse(rscPayload)

SpecParse == InitEnrichment /\ [][NextParse]_vars

\* The nearest station of every listing with up to MaxStations stations.
NextStations ==
    /\ calc = NoCalc
    /\ \E n \in 0..MaxStations : \E trainStations \in [1..n -> Stations] :
          Nearest(trainStations)

SpecStations == InitEnrichment /\ [][NextStations]_vars

\* The Scores query on every walk-minutes field of up to MaxField characters
\* and on a descriptor without the field.
NextQuery ==
    \/ /\ calc = NoCalc
       /\ \E n \in 0..MaxField : \E walkMin \in [1..n -> FieldChars] :
             ScoreQuery(walkMin)
    \/ /\ calc = NoCalc
       /\ ScoreQuery(Missing)

SpecQuery == InitEnrichment /\ [][NextQuery]_vars

\* ------------------------------------------------------------------ claims
AfterDiff == {"notify", "send", "syncDel", "syncAdd", "setListings", "setTs",
              "done"}

Dispatched(p) == gh[p].called \/ gh[p].sent # {} \/ history # gh[p].start.history

\* C1: after every poll, refresh or settings update that completes, the known
\* set equals exactly the identifiers of the listings that handler fetched:
\* identifiers known before and absent from the new snapshot are gone.
C1_KnownIsFetchedIds ==
    \A p \in Procs :
        Pc(p) = "done" => known = CurrentIds(loc[p].properties)

C1_Witness ==
    \E p \in Procs :
        /\ Pc(p) = "done"
        /\ loc[p].properties # <<>>
        /\ gh[p].start.known \ CurrentIds(loc[p].properties) # {}

\* C2: in a poll the new listings are the fetched listings, in their order,
\* whose identifier is not in the known set as it was when the cycle started:
\* the whole list when that set is empty, the set difference otherwise.
C2_DiffAgainstKnownBefore ==
    \A p \in Procs :
        (loc[p].op = "poll" /\ Pc(p) \in AfterDiff) =>
            LET new == loc[p].newProperties
                cur == loc[p].properties
                before == gh[p].start.known
            IN /\ Range(new) = Range(cur) \ before
               /\ new = SelectSeq(cur, LAMBDA i : i \in Range(new))
               /\ before = {} => new = cur

C2_Witness ==
    \E p \in Procs :
        /\ loc[p].op = "poll" /\ Pc(p) = "done"
        /\ gh[p].start.known \cap Range(loc[p].properties) # {}
        /\ loc[p].newProperties # <<>>
        /\ loc[p].newProperties # loc[p].properties

\* C3: a poll that starts with an empty known set dispatches nothing and
\* leaves the notification history alone, and when it completes the known set
\* is the set of fetched identifiers.
C3_ColdStartSeedsSilently ==
    \A p \in Procs :
        (loc[p].op = "poll" /\ Pc(p) # "idle" /\ gh[p].start.known = {}) =>
            /\ ~Dispatched(p)
            /\ Pc(p) = "done" => known = CurrentIds(loc[p].properties)

C3_Witness ==
    \E p \in Procs :
        /\ loc[p].op = "poll" /\ Pc(p) = "done"
        /\ gh[p].start.known = {}
        /\ ~gh[p].start.seeded
        /\ loc[p].newProperties # <<>>
        /\ known # {}
        /\ vapid /\ subs # {}

\* C4: every poll that is not the cold-start cycle (a cycle has completed
\* before it) and that fetches a listing absent from the known set invokes the
\* dispatcher with exactly the new listings.
C4_DispatchWheneverNew ==
    \A p \in Procs :
        (/\ loc[p].op = "poll" /\ Pc(p) \in AfterDiff
         /\ gh[p].start.seeded
         /\ loc[p].newProperties # <<>>) =>
            gh[p].called /\ gh[p].arg = loc[p].newProperties

\* C5: a settings update never dispatches; when it has completed the known set
\* is the set of identifiers it fetched; and a poll that follows it and fetches
\* the same listings dispatches nothing.
C5_SettingsThenPollSilent ==
    /\ \A p \in Procs :
          (loc[p].op = "settings" /\ Pc(p) # "idle") => ~Dispatched(p)
    /\ \A p \in Procs :
          (/\ loc[p].op = "poll" /\ Pc(p) # "idle"
           /\ last.op = "settings" /\ last.ok) =>
              /\ gh[p].start.known = CurrentIds(gh[p].start.latest)
              /\ (/\ Pc(p) \in AfterDiff
                  /\ loc[p].properties = gh[p].start.latest) => ~Dispatched(p)

C5_Witness ==
    \E p \in Procs :
        /\ loc[p].op = "poll" /\ Pc(p) = "done"
        /\ last.op = "settings" /\ last.ok /\ last.fresh
        /\ loc[p].properties = gh[p].start.latest
        /\ loc[p].properties # <<>>
        /\ gh[p].start.filters # DEFAULT_FILTERS
        /\ vapid /\ subs # {}

\* C6: a refresh never dispatches and never appends to the history; it leaves
\* the filters alone, and when it completes the known set, the snapshot and
\* the timestamp are those of its own fetch.
C6_RefreshNeverDispatches ==
    \A p \in Procs :
        (loc[p].op = "refresh" /\ Pc(p) # "idle") =>
            /\ ~Dispatched(p)
            /\ filters = gh[p].start.filters
            /\ Pc(p) = "done" =>
                  /\ known = CurrentIds(loc[p].properties)
                  /\ latest = loc[p].properties
                  /\ lastPoll = loc[p].ts

C6_Witness ==
    \E p \in Procs :
        /\ loc[p].op = "refresh" /\ Pc(p) = "done"
        /\ gh[p].start.known # {}
        /\ CurrentIds(loc[p].properties) \ gh[p].start.known # {}
        /\ vapid /\ subs # {}

\* C7: reconcile is atomic for readers: a poll that reads the known set while
\* another handler, which started with a non-empty known set, has fetched a
\* non-empty snapshot and is the only writer since it started, never reads an
\* empty set.
C7_ReaderNeverSeesEmpty ==
    [][\A r \in Procs : \A q \in Procs \ {r} :
          (/\ ReadKnown(r)
           /\ Pc(q) \in {"syncDel", "syncAdd"}
           /\ Len(loc[q].properties) > 0
           /\ gh[q].start.known # {}
           /\ gh[q].onlyWriter) =>
              loc'[r].knownIds # {}]_vars

\* C8: last writer wins: once two handlers have both completed, the known set
\* is the identifier set of one of the two fetched snapshots.
C8_LastWriterWins ==
    \A p \in Procs : \A q \in Procs \ {p} :
        (Pc(p) = "done" /\ Pc(q) = "done") =>
            \/ known = CurrentIds(loc[p].properties)
            \/ known = CurrentIds(loc[q].properties)

\* C9: a handler that fails leaves the known set, the snapshot and the
\* timestamp exactly as they were when it started.
C9_FailureAppliesNothing ==
    \A p \in Procs :
        Pc(p) = "failed" =>
            /\ known = gh[p].start.known
            /\ latest = gh[p].start.latest
            /\ lastPoll = gh[p].start.lastPoll

\* C10: a settings update with no ward is rejected, fetches nothing, and
\* leaves the filters, the known set, the snapshot and the timestamp as they
\* were.
C10_EmptyWardsRejected ==
    \A p \in Procs :
        (loc[p].op = "settings" /\ Pc(p) # "idle" /\ loc[p].wards = {}) =>
            /\ Pc(p) = "rejected"
            /\ ~gh[p].fetched
            /\ filters = gh[p].start.filters
            /\ known = gh[p].start.known
            /\ latest = gh[p].start.latest
            /\ lastPoll = gh[p].start.lastPoll

C10_Witness ==
    \E p \in Procs :
        /\ loc[p].op = "settings" /\ Pc(p) = "rejected"
        /\ known # {}
        /\ filters # NoFilters

\* The dispatcher was called by handler p and has returned to it.
DispatchReturned(p) ==
    /\ gh[p].called
    /\ Pc(p) \in {"syncDel", "syncAdd", "setListings", "setTs", "done"}

\* Every delivery of handler p's dispatch has settled.
AllSettled(p) ==
    /\ loc[p].subscriptions # {}
    /\ loc[p].pending = {}

\* C11: in the delivery step where the transport reports endpoint e gone (404
\* or 410), e leaves the registry, so that it is absent when the dispatch
\* returns, and every registration of another endpoint stays.
C11_GoneEndpointRemoved ==
    [][\A p \in Procs : \A e \in PushEndpoints :
          (Send(p, e) /\ gh'[p].outcome[e] \in {"gone", "goneRemoveFails"}) =>
              /\ e \notin Registered(subs')
              /\ \A s \in subs : s.endpoint # e => s \in subs']_vars

\* C12: in a dispatch no endpoint gets a second delivery, every delivery
\* carries the dispatch's payload and goes to an endpoint that was registered
\* when the dispatch read the registry, and once the deliveries have settled
\* each of those endpoints has had exactly one, whatever the outcomes of the
\* others were.
C12_OneAttemptEach ==
    \A p \in Procs :
        /\ \A e \in PushEndpoints :
              /\ Len(gh[p].delivered[e]) <= 1
              /\ Len(gh[p].delivered[e]) = 1 =>
                    /\ e \in Registered(loc[p].subscriptions)
                    /\ gh[p].delivered[e][1] = loc[p].payload
        /\ AllSettled(p) =>
              \A e \in Registered(loc[p].subscriptions) :
                  Len(gh[p].delivered[e]) = 1

C12_Witness ==
    \E p \in Procs : \E e1 \in PushEndpoints : \E e2 \in PushEndpoints :
        /\ DispatchReturned(p) /\ AllSettled(p)
        /\ {e1, e2} \subseteq Registered(loc[p].subscriptions)
        /\ gh[p].outcome[e1] = "goneRemoveFails"
        /\ gh[p].outcome[e2] = "ok"

\* C13: a delivery that fails without a gone signal changes nothing in the
\* registry, and it is the endpoint's only delivery of the dispatch: the
\* endpoint is not pending again.
C13_OtherFailureIgnored ==
    [][\A p \in Procs : \A e \in PushEndpoints :
          (Send(p, e) /\ gh'[p].outcome[e] = "error") =>
              /\ subs' = subs
              /\ Len(gh'[p].delivered[e]) = 1
              /\ e \notin loc'[p].pending]_vars

C13_Witness ==
    \E p \in Procs : \E e \in PushEndpoints :
        /\ DispatchReturned(p) /\ AllSettled(p)
        /\ gh[p].outcome[e] = "error"
        /\ e \in Registered(subs)
        /\ Cardinality(subs) = 2

\* C14: when a dispatch on a non-empty list has returned, the history holds
\* one new record per new listing, newest first, on top of what it held
\* before, whatever the registry was; and nothing is appended while a delivery
\* is pending.
C14_RecordPerNewListing ==
    \A p \in Procs :
        /\ DispatchReturned(p) =>
              history = Reverse(NotificationRecords(gh[p].arg))
                            \o gh[p].start.history
        /\ (Pc(p) = "send" /\ loc[p].pending # {}) =>
              history = gh[p].start.history

\* C15: the history never holds more than MAX_NOTIFICATIONS records, and it
\* holds the most recently appended ones, newest first: what an append evicts
\* is the oldest.
C15_HistoryKeepsNewest ==
    LET n == Len(appended)
        m == Min({n, MAX_NOTIFICATIONS})
    IN /\ Len(history) <= MAX_NOTIFICATIONS
       /\ history = Reverse(SubSeq(appended, n - m + 1, n))

C15_Witness ==
    /\ Len(appended) > MAX_NOTIFICATIONS + 1
    /\ Len(history) = MAX_NOTIFICATIONS
    /\ appended[1] \notin Range(history)
    /\ appended[Len(appended) - MAX_NOTIFICATIONS] \notin Range(history)
    /\ Pc("a") = "idle"

\* C16 as stated: when the dispatcher has returned, the records it returned
\* are the records the history gained in the call, for any number of new
\* listings.
C16_ReturnedIsRecorded ==
    \A p \in Procs :
        DispatchReturned(p) =>
            /\ \A i \in 1..Len(loc[p].returned) :
                  loc[p].returned[i] \in Range(history)
            /\ \A r \in Range(history) \ Range(gh[p].start.history) :
                  r \in Range(loc[p].returned)

\* C16, amended: the dispatcher returns one record per new listing when it
\* has delivered, and nothing otherwise; of the k records it returns the
\* history holds the last min(k, MAX_NOTIFICATIONS), newest first, so the
\* returned list is the recorded list only up to MAX_NOTIFICATIONS listings.
C16_ReturnedUpToBound ==
    \A p \in Procs :
        DispatchReturned(p) =>
            LET returned == loc[p].returned
                k == Len(returned)
                m == Min({k, MAX_NOTIFICATIONS})
            IN /\ returned \in {<<>>, NotificationRecords(gh[p].arg)}
               /\ k = 0 => history = gh[p].start.history
               /\ k > 0 => SubSeq(history, 1, m) =
                               Reverse(SubSeq(returned, k - m + 1, k))
               /\ k <= MAX_NOTIFICATIONS =>
                     \A i \in 1..k : returned[i] \in Range(history)

C16_Witness ==
    \E p \in Procs :
        /\ DispatchReturned(p)
        /\ Len(loc[p].returned) > MAX_NOTIFICATIONS
        /\ loc[p].returned[1] \notin Range(history)
        /\ gh[p].outcome[1] = "error"

\* C17: a dispatch builds one payload and every delivery carries it; for one
\* new listing it is that listing's detailed summary, and for k >= 2 its title
\* states k and its body holds the short summaries of the first min(k, 3)
\* listings, in order.
C17_OnePayload ==
    \A p \in Procs :
        loc[p].subscriptions # {} =>
            LET new == loc[p].newProperties
                k == Len(new)
                payload == loc[p].payload
            IN /\ \A e \in PushEndpoints :
                     \A i \in 1..Len(gh[p].delivered[e]) :
                        gh[p].delivered[e][i] = payload
               /\ payload.propertyCount = k
               /\ k = 1 =>
                     /\ payload.title = [kind |-> "name", of |-> new[1]]
                     /\ payload.body = <<FormatPropertySummary(new[1])>>
               /\ k >= 2 =>
                     /\ payload.title = [kind |-> "count", of |-> k]
                     /\ Len(payload.body) = Min({k, 3})
                     /\ \A i \in 1..Len(payload.body) :
                           payload.body[i] = ShortSummary(new[i])

C17_Witness ==
    \E p \in Procs :
        /\ DispatchReturned(p) /\ AllSettled(p)
        /\ Len(loc[p].newProperties) > 3
        /\ Cardinality(loc[p].subscriptions) = 2
        /\ Len(loc[p].payload.body) = 3

\* C18: registering an endpoint leaves exactly one entry for it, holding the
\* keys just given; unregistering an endpoint leaves no entry for it; and
\* unregistering an endpoint that is not registered changes nothing.
C18_RegistrationIdempotent ==
    [][/\ \A e \in PushEndpoints : \A k \in KeyPairs :
             Subscribe(e, k) =>
                {s \in subs' : s.endpoint = e} = {[endpoint |-> e, keys |-> k]}
       /\ \A e \in PushEndpoints :
             Unsubscribe(e) =>
                /\ e \notin Registered(subs')
                /\ e \notin Registered(subs) => subs' = subs]_vars

\* The request that follows log entry i, as far as it is decided: the next
\* entry of the log, or the request the query is about to make or is waiting
\* for.  None when the query has ended.
Following(i) ==
    IF i < Len(amen.log)
    THEN {[server |-> amen.log[i + 1].server,
           attempt |-> amen.log[i + 1].attempt]}
    ELSE IF amen.pc \in {"backoff", "request", "awaiting"}
         THEN {[server |-> amen.server, attempt |-> amen.attempt]}
         ELSE {}

Failed(entry) == entry.outcome # "ok"

\* C19 as stated: the mirrors are tried in order, every request that fails,
\* with HTTP 429 or otherwise, is followed by another attempt on the same
\* mirror until 3 have been made there, and the query fails only when every
\* mirror has had 3 attempts.
C19_EveryFailureRetried ==
    /\ \A i \in 1..Len(amen.log) :
          LET a == amen.log[i]
          IN (Failed(a) /\ a.attempt < MAX_RETRIES - 1) =>
                Following(i) = {[server |-> a.server,
                                 attempt |-> a.attempt + 1]}
    /\ amen.pc = "failed" =>
          \A srv \in 1..Len(OVERPASS_SERVERS) :
              Cardinality({i \in 1..Len(amen.log) :
                              amen.log[i].server = srv}) = MAX_RETRIES

\* C19, amended: the mirrors are tried in order from the first; only a
\* request that ends in HTTP 429 is retried on its mirror, up to 3 attempts,
\* after 3s before the second and 6s before the third; any other failure, and
\* the third 429, moves the query to the first attempt on the next mirror
\* without delay; and the query fails exactly when the last mirror has given
\* such a final failure.
C19_OnlyRateLimitRetried ==
    /\ \A i \in 1..Len(amen.log) :
          LET a == amen.log[i]
              retried == a.outcome = "429" /\ a.attempt < MAX_RETRIES - 1
          IN /\ i = 1 => a.server = 1 /\ a.attempt = 0
             /\ a.attempt \in 0..(MAX_RETRIES - 1)
             /\ a.attempt = 0 => a.slept = 0
             /\ a.attempt = 1 => a.slept = 3000
             /\ a.attempt = 2 => a.slept = 6000
             /\ retried =>
                   Following(i) = {[server |-> a.server,
                                    attempt |-> a.attempt + 1]}
             /\ (Failed(a) /\ ~retried /\ a.server < Len(OVERPASS_SERVERS)) =>
                   Following(i) = {[server |-> a.server + 1, attempt |-> 0]}
             /\ (Failed(a) /\ ~retried /\ a.server = Len(OVERPASS_SERVERS)) =>
                   /\ i = Len(amen.log)
                   /\ amen.pc = "failed"
             /\ ~Failed(a) => i = Len(amen.log) /\ amen.pc = "returned"
    /\ amen.pc = "failed" =>
          /\ Len(amen.log) > 0
          /\ Failed(amen.log[Len(amen.log)])
          /\ amen.log[Len(amen.log)].server = Len(OVERPASS_SERVERS)

C19_Witness ==
    /\ amen.pc = "failed"
    /\ Len(amen.log) = MAX_RETRIES + 1
    /\ amen.log[MAX_RETRIES].outcome = "429"
    /\ amen.log[MAX_RETRIES].server = 1
    /\ amen.log[MAX_RETRIES + 1].outcome = "network"
    /\ amen.log[MAX_RETRIES + 1].attempt = 0

\* C20: no outbound call blocks for ever: while the amenity query waits for a
\* mirror, a step of the query is possible (the answer, or the expiry of a
\* request timeout), even when the mirror never answers.
C20_NoCallBlocks ==
    amen.pc = "awaiting" => ENABLED AmenityStep

\* The rubric's table for a scale, as intervals: <<lowest input, value>>, the
\* value holding up to the next row's lowest input.
Rubric(scale) ==
    CASE scale = "station" ->
           <<<<0, 10>>, <<4, 8>>, <<6, 6>>, <<9, 4>>, <<13, 2>>, <<16, 1>>>>
      [] scale = "supermarkets" ->
           <<<<0, 0>>, <<1, 4>>, <<2, 6>>, <<3, 8>>, <<4, 10>>>>
      [] scale = "restaurants" ->
           <<<<0, 0>>, <<1, 3>>, <<6, 5>>, <<16, 7>>, <<31, 8>>, <<51, 10>>>>
      [] scale = "convenience" ->
           <<<<0, 0>>, <<1, 4>>, <<2, 7>>, <<3, 10>>>>
      [] scale = "parks" ->
           <<<<0, 0>>, <<1, 5>>, <<2, 7>>, <<3, 10>>>>

RubricValue(scale, input) ==
    LET rows == Rubric(scale)
        row == CHOOSE i \in 1..Len(rows) :
                   /\ rows[i][1] <= input
                   /\ i < Len(rows) => input < rows[i + 1][1]
    IN  rows[row][2]

\* C21: every sub-score is the rubric's value for its input, lies in 0..10,
\* and does not rise with one more walking minute nor fall with one more
\* amenity.
C21_SubScoresFollowRubric ==
    calc.fn \in Scales =>
        /\ calc.out = RubricValue(calc.fn, calc.arg)
        /\ calc.out \in 0..10
        /\ calc.fn = "station" => SubScore(calc.fn, calc.arg + 1) <= calc.out
        /\ calc.fn # "station" => SubScore(calc.fn, calc.arg + 1) >= calc.out

C21_Witness ==
    /\ calc.fn = "restaurants"
    /\ calc.arg = 51
    /\ calc.out = 10

\* The weighted sum of five sub-scores in twentieths: the weights are
\* 5/20, 5/20, 4/20, 3/20 and 3/20.
WeightedSum20(a) ==
    5 * a.station + 5 * a.supermarkets + 4 * a.restaurants
      + 3 * a.convenience + 3 * a.parks

\* Every combination of sub-scores the five scales can produce.
Combos ==
    [station : ScoresOf("station"), supermarkets : ScoresOf("supermarkets"),
     restaurants : ScoresOf("restaurants"),
     convenience : ScoresOf("convenience"), parks : ScoresOf("parks")]

OverallOf ==
    [a \in Combos |-> Overall(a.station, a.supermarkets, a.restaurants,
                              a.convenience, a.parks)]

\* C22: the overall score is the weighted sum of the five sub-scores rounded
\* to one decimal: a one-decimal number nearest to the sum, and the same
\* number for every combination of sub-scores that has the same sum; it lies
\* between 0 and 10 and is 10.0 when all five sub-scores are 10.
C22_OverallIsRoundedWeightedSum ==
    calc.fn = "overall" =>
        /\ 2 * calc.out - WeightedSum20(calc.arg) \in {-1, 0, 1}
        /\ \A b \in Combos :
              WeightedSum20(b) = WeightedSum20(calc.arg) =>
                  OverallOf[b] = calc.out
        /\ calc.out \in 0..100
        /\ (\A f \in DOMAIN calc.arg : calc.arg[f] = 10) => calc.out = 100

\* The result pushed last.
LastResult(e) == e.results[Len(e.results)]

\* C23: computeScore is cache-first.  A read that finds an unexpired score
\* sends no amenity query, and the score found is the result (a zero
\* placeholder if the read itself failed); a score computed and written is in
\* the cache with an expiry seven days (two ticks of the clock) ahead; and an
\* entry leaves the cache only by that expiry or by being overwritten with a
\* newly computed score, so a second computeScore within the expiry finds it.
C23_CacheFirst ==
    [][enr.engine = "computeScores" =>
        /\ (/\ enr.pc = "read"
            /\ enr'.pc # "read"
            /\ enr.scores[Property(enr).id] # Null
            /\ enr.now < enr.scores[Property(enr).id].expires) =>
               /\ enr'.pc \in {"sleep", "done"}
               /\ enr'.queried = enr.queried
               /\ enr'.outstanding = 0
               /\ enr'.results \in
                     {Append(enr.results, enr.scores[Property(enr).id].value),
                      Append(enr.results, ZeroScore(Property(enr), enr.now))}
        /\ (/\ enr.pc = "write"
            /\ enr'.pc # "write"
            /\ LastResult(enr') = enr.local) =>
               enr'.scores[Property(enr).id] =
                   [value |-> enr.local, expires |-> enr.now + SCORE_TTL_TICKS]
        /\ \A id \in Listings :
              enr'.scores[id] # enr.scores[id] =>
                  \/ /\ enr.scores[id] # Null
                     /\ enr'.scores[id] = Null
                     /\ enr'.now >= enr.scores[id].expires
                  \/ /\ enr.pc = "write"
                     /\ id = Property(enr).id
                     /\ enr'.scores[id].value = enr.local
                     /\ enr.local.overall > 0
    ]_vars

\* A second batch answered listing 2 from the cache, without a query, with
\* the score the first batch computed.
C23_Witness ==
    /\ enr.engine = "computeScores"
    /\ enr.batches = 2
    /\ enr.pc = "done"
    /\ enr.properties = <<2>>
    /\ enr.queried = {}
    /\ enr.scores[2] # Null
    /\ enr.results = <<enr.scores[2].value>>
    /\ enr.results[1].overall > 0

\* An all-zero score that keeps only the listing's walk to the station.
IsZeroScore(score, id) ==
    \E now \in 0..(MaxTicks + 1) : score = ZeroScore(PropertyInput(id), now)

\* The step in which the batch returns its results.
Returns == enr.pc # "done" /\ enr'.pc = "done"

\* A scoring batch never aborts, and its results are one per input so far, in
\* input order, the i-th carrying the i-th identifier, the all-zero
\* placeholder for the inputs whose computation failed; when it returns there
\* is one result per input, and every input that did not fail has its result
\* in the score cache, or its listing is in `lapsed`.
ResultPerInput(e, lapsed, returning) ==
    e.engine = "computeScores" =>
        /\ e.pc # "aborted"
        /\ Len(e.results) <= Len(e.properties)
        /\ \A k \in 1..Len(e.results) :
              /\ e.results[k].propertyId = e.properties[k]
              /\ k \in e.failed <=> IsZeroScore(e.results[k], e.properties[k])
        /\ returning =>
              /\ Len(e.results) = Len(e.properties)
              /\ \A k \in 1..Len(e.results) :
                    k \notin e.failed =>
                        \/ /\ e.scores[e.properties[k]] # Null
                           /\ e.scores[e.properties[k]].value = e.results[k]
                        \/ e.properties[k] \in lapsed

\* C24: a scoring batch returns one result per input in input order with the
\* input's identifier, a failing input yields the all-zero placeholder and
\* does not abort the batch, and every input that succeeds has its score in
\* the cache when the batch returns.
C24_OneResultPerInput == [][ResultPerInput(enr', {}, Returns)]_vars

\* C24, amended: as above, except that a score whose seven days ran out while
\* the batch was running is no longer in the cache when the batch returns.
C24_CachedUntilExpiry == [][ResultPerInput(enr', enr'.gone, Returns)]_vars

\* The second of three inputs failed; the first and the third are cached.
C24_Witness ==
    /\ enr.engine = "computeScores"
    /\ enr.pc = "done"
    /\ Len(enr.properties) = 3
    /\ enr.failed = {2}
    /\ enr.queried = {1, 2, 3}
    /\ enr.gone = {}
    /\ \A k \in {1, 3} :
          /\ enr.scores[enr.properties[k]] # Null
          /\ enr.scores[enr.properties[k]].value = enr.results[k]
    /\ enr.scores[enr.properties[2]] = Null

\* C25: a scoring failure writes nothing to the score cache.  The step in
\* which a computation fails leaves the cache as it is; for a listing whose
\* computation failed in the batch the cache has no entry, or the entry it had
\* when the batch started; no cache entry is a zero placeholder; and a later
\* read for a listing without an entry goes on to the amenity query.
C25_FailureWritesNothing ==
    [][enr'.engine = "computeScores" =>
        /\ enr'.failed # enr.failed => enr'.scores = enr.scores
        /\ \A k \in enr'.failed :
              enr'.scores[enr'.properties[k]] \in
                  {Null, enr'.start.scores[enr'.properties[k]]}
        /\ \A id \in Listings :
              enr'.scores[id] # Null =>
                  ~IsZeroScore(enr'.scores[id].value, id)
        /\ (/\ enr.pc = "read"
            /\ enr'.pc # "read"
            /\ enr.scores[Property(enr).id] = Null
            /\ enr'.failed = enr.failed) =>
               enr'.pc = "query"
    ]_vars

\* The second batch computes listing 1, whose computation failed in the first
\* batch and left no entry.
C25_Witness ==
    /\ enr.engine = "computeScores"
    /\ enr.batches = 2
    /\ enr.properties = <<1>>
    /\ enr.start.scores[1] = Null
    /\ enr.pc = "done"
    /\ enr.queried = {1}
    /\ enr.failed = {}
    /\ enr.scores[1] # Null
    /\ enr.now = 0

C27_FailureIsCached ==
    enr.engine # "computeScores" =>
        /\ enr.pc # "aborted"
        /\ \A k \in enr.failed :
              k <= Len(enr.results) =>
                  /\ \E now \in 0..MaxTicks :
                        enr.results[k] =
                            ZeroCommute(PropertyInput(enr.limited[k]), now)
                  /\ getCachedCommute(enr.commutes, enr.limited[k]) =
                        enr.results[k]

\* C28: a commute batch does not abort, and when it returns it has one result
\* per input listing, in input order, the i-th carrying the i-th identifier.
C28_OneCommutePerInput ==
    [][enr'.engine # "computeScores" =>
          /\ enr'.pc # "aborted"
          /\ Returns =>
                /\ Len(enr'.results) = Len(enr'.properties)
                /\ \A k \in 1..Len(enr'.results) :
                      enr'.results[k].propertyId = enr'.properties[k]
    ]_vars

\* C29: whenever the departure time is taken, it is 08:00 in the JST wall
\* clock (UTC + 9 h), on a Monday to Friday of the JST calendar, and later
\* than the instant at which it is taken.
C29_DepartureOnWeekdayMorning ==
    calc.fn = "getNextWeekdayMorning" =>
        /\ (calc.out + 9 * Hour) % Day = 8 * Hour
        /\ getUTCDay(calc.out + 9 * Hour) \in 1..5
        /\ calc.out > calc.arg

C31_ParserNeverRaises ==
    calc.fn = "extractProperties" => ~calc.out.raised

\* C32: a payload whose listings marker is followed at once by the empty
\* array yields the empty list with neither the bracket extractor nor the
\* fallback parser run, by another exit than the one of a payload without
\* the marker.
C32_EmptyShortCircuit ==
    calc.fn = "extractProperties" =>
        LET rscPayload == calc.arg
            at(i, char) == i <= Len(rscPayload) /\ rscPayload[i] = char
            keys == {i \in 1..Len(rscPayload) : rscPayload[i] = Key}
            empty == \E i \in keys : at(i + 1, Open) /\ at(i + 2, Close)
            listed == \E i \in keys : at(i + 1, Open) /\ at(i + 2, OpenBrace)
        IN  /\ empty => calc.out = Returned(0, "empty", {})
            /\ ~empty /\ ~listed => calc.out = Returned(0, "missing", {})
            /\ Returned(0, "empty", {}) # Returned(0, "missing", {})

\* The empty array after the marker, in the middle of a payload.
C32_Witness ==
    /\ calc.fn = "extractProperties"
    /\ calc.arg = <<Other, Key, Open, Close, Other>>
    /\ calc.out.path = "empty"
    /\ calc.out.calls = {}

\* The first station of the list among those with the fewest walking
\* minutes; "Unknown" with 0 minutes for an empty list.
FirstNearest(trainStations) ==
    IF trainStations = <<>> THEN [name |-> "Unknown", minutes |-> 0]
    ELSE LET least == Min({trainStations[i].minutes :
                              i \in 1..Len(trainStations)})
             first == Min({i \in 1..Len(trainStations) :
                              trainStations[i].minutes = least})
         IN  trainStations[first]

\* C33 as stated: the notification record and the single-listing summary
\* both carry the first of the stations with the fewest walking minutes, and
\* "Unknown" with 0 minutes for a listing without a station.
C33_NearestStation ==
    calc.fn = "nearestStation" =>
        /\ calc.record = FirstNearest(calc.arg)
        /\ calc.summary = <<FirstNearest(calc.arg)>>

\* C33 amended: as above, but for a listing without a station only the
\* notification record carries "Unknown" with 0 minutes; the summary has no
\* station part.
C33_NearestStationOrNone ==
    calc.fn = "nearestStation" =>
        /\ calc.record = FirstNearest(calc.arg)
        /\ calc.summary =
              IF calc.arg = <<>> THEN <<>> ELSE <<FirstNearest(calc.arg)>>

\* Two stations tied for the fewest minutes after a farther one: the first
\* of the two is taken.
C33_Witness ==
    /\ calc.fn = "nearestStation"
    /\ calc.arg = <<[name |-> "Shibuya", minutes |-> 2],
                    [name |-> "Meguro", minutes |-> 1],
                    [name |-> "Ebisu", minutes |-> 1]>>
    /\ calc.record = [name |-> "Meguro", minutes |-> 1]
    /\ calc.summary = <<[name |-> "Meguro", minutes |-> 1]>>

\* What a poll reports as new and hands to the dispatcher when the store is
\* as the poll whose snapshot was `polled` left it.
Expected(properties, polled) ==
    LET newProperties == DiffNew(properties, polled)
        notify == ShouldNotify(newProperties, polled)
    IN  [newProperties |-> newProperties,
         called |-> notify,
         arg |-> IF notify THEN newProperties ELSE <<>>]

\* The same of the poll that process p is running, once it has diffed.
Reported(p) ==
    [newProperties |-> loc[p].newProperties,
     called |-> gh[p].called,
     arg |-> gh[p].arg]

Diffed(p) == loc[p].op = "poll" /\ Pc(p) \in {"notify", "send", "syncDel"}

\* C34: manual refreshes between two polls do not change what the later poll
\* reports and dispatches as new: it is what the later poll would report
\* right after the earlier one.
C34_RefreshLeavesNextPollAlone ==
    \A p \in Procs :
        Diffed(p) /\ last.since = "refresh" =>
            Reported(p) = Expected(loc[p].properties, last.polled)

\* C35: in a row of polls that all complete, a poll does not dispatch a
\* listing that the poll before it had in its snapshot (so a listing that
\* stays in the results is dispatched by one poll at most), and it reports
\* as new every listing that was absent from that snapshot (so a listing
\* that went and came back is new again).
C35_DispatchedOnceWhilePresent ==
    \A p \in Procs :
        Diffed(p) /\ last.since = "nothing" =>
            /\ Range(gh[p].arg) \cap last.polled = {}
            /\ CurrentIds(loc[p].properties) \ last.polled
                  \subseteq Range(loc[p].newProperties)

\* The second poll after the start: the poll before it found listing 2 gone,
\* this one finds it back and dispatches it, and not listing 1, which stayed.
C35_Witness ==
    /\ Diffed("a")
    /\ clock = 4
    /\ last.since = "nothing"
    /\ last.polled = {1}
    /\ loc["a"].properties = <<1, 2>>
    /\ gh["a"].arg = <<2>>
    /\ Pc("a") = "send"

\* C36: whenever no handler is in flight, the known identifiers are exactly
\* the identifiers of the persisted snapshot.
C36_KnownIsSnapshotWhenIdle ==
    (\A p \in Procs : Pc(p) = "idle") => known = CurrentIds(latest)

\* C37: a poll replaces the known identifiers only after the dispatch has
\* returned: up to then, and when the dispatch has thrown, they are as they
\* were when the poll started; and the poll after polls whose dispatch threw
\* reports as new, and dispatches, the fetched listings that the last
\* completed poll did not have.
C37_KnownReplacedAfterDispatch ==
    \A p \in Procs :
        /\ (/\ loc[p].op = "poll"
            /\ \/ Pc(p) \in {"fetch", "readKnown", "notify", "send"}
               \/ Pc(p) = "failed" /\ gh[p].raisedAt \in {"notify", "send"})
              => known = gh[p].start.known
        /\ Diffed(p) /\ last.since = "raised" =>
              /\ Range(loc[p].newProperties) =
                    CurrentIds(loc[p].properties) \ last.polled
              /\ loc[p].newProperties # <<>> /\ last.polled # {} =>
                    gh[p].called /\ gh[p].arg = loc[p].newProperties

\* The poll after one whose dispatch threw: listing 2, new since the last
\* completed poll, is new again and its deliveries are under way.
C37_Witness ==
    /\ Diffed("a")
    /\ last.since = "raised"
    /\ last.op = "poll" /\ ~last.ok
    /\ last.polled = {1}
    /\ known = {1}
    /\ loc["a"].properties = <<1, 2>>
    /\ gh["a"].arg = <<2>>
    /\ Pc("a") = "send"

\* C38: two distinct push endpoints occupy two distinct registry entries:
\* registering endpoint b, unregistering it, or removing it after a delivery
\* that reports it gone leaves the registration of every other endpoint as
\* it was.
C38_DistinctEndpointsDistinctEntries ==
    [][\A b \in PushEndpoints :
          (\/ \E k \in KeyPairs : Subscribe(b, k)
           \/ Unsubscribe(b)
           \/ \E p \in Procs : Send(p, b)) =>
             \A a \in PushEndpoints \ {b} :
                {s \in subs' : s.endpoint = a} = {s \in subs : s.endpoint = a}]_vars

\* The number that a text of decimal digits writes.
RECURSIVE Decimal(_)
Decimal(str) ==
    IF str = <<>> THEN 0
    ELSE 10 * Decimal(SubSeq(str, 1, Len(str) - 1))
            + DigitValue(str[Len(str)])

\* C39: when the walk-minutes field of a descriptor writes a non-negative
\* integer w, 0 included, the station sub-score is the rubric's value for w;
\* when the field is missing or does not start as a number, it is the
\* rubric's value for the default of 15.
C39_StationScoreOfWalkMinutes ==
    calc.fn = "scores" =>
        LET walkMin == calc.arg
            integer == /\ walkMin # <<>>
                       /\ \A i \in 1..Len(walkMin) : IsDigit(walkMin[i])
            noNumber == walkMin = <<>> \/ ~IsDigit(walkMin[1])
        IN  /\ integer => calc.station = RubricValue("station", Decimal(walkMin))
            /\ noNumber => calc.station = RubricValue("station", DEFAULT_WALK)

====
